---------------------------- MODULE Spec2Model ----------------------------
(***************************************************************************)
(* A model of the transaction ingestion and categorization pipeline of     *)
(* budget-bop: the tabular source parser (ClipboardParser), the            *)
(* transaction hasher (TransactionHasher), the vendor normalizer           *)
(* (VendorNormalizer) and the auto-categorizer (AutoCategorizer).          *)
(*                                                                         *)
(* Strings are TLA+ strings; a character is a string of length one.        *)
(* Every component has its own variables and its own specification; the    *)
(* variables of the other components keep their initial values.            *)
(***************************************************************************)
EXTENDS Integers, Sequences, FiniteSets, TLC

VARIABLES
    \* ClipboardParser.parseCSVLine
    csvLine,        \* the line handed to parseCSVLine
    csvDelimiter,   \* the delimiter handed to parseCSVLine
    csvValues,      \* the values parseCSVLine returned
    csvFields,      \* the record csvLine was written from (<<>>: a raw line)
    csvPhase,       \* "input" before the call, "parsed" after it
    \* the host environment
    tzEastOfUtc,    \* TRUE when the host's local time is ahead of UTC
    \* TransactionHasher.generateHash
    hashOrig,       \* a transaction
    hashVariant,    \* the same transaction, its description rewritten
    hashEditKind,   \* how the description is rewritten
    hashOfOrig,     \* generateHash(hashOrig), "" before the call
    hashOfVariant,  \* generateHash(hashVariant), "" before the call
    \* TransactionHasher's list operations
    dedupBatch,     \* the batch of mapped transactions
    existingHashes, \* the caller's set of already-known hashes
    opInput,        \* the list handed to the last operation
    opOutput,       \* the list the last operation returned
    lastOp,         \* the last operation
    \* VendorNormalizer
    vnHeap,         \* the rule objects, a reference being an index
    vnRules,        \* this.rules: references in array order
    vnCache,        \* this.userLearningRules: key -> reference
    vnTrace,        \* the calls made so far, with what they returned
    \* AutoCategorizer
    acHeap,         \* the rule objects, a reference being an index
    acRules,        \* this.rules: references in array order
    acCategories,   \* this.userCategories
    acTrace,        \* the calls made so far, with what they returned
    \* ClipboardParser.parseText
    ptText,         \* the text handed to parseText
    ptPhase,        \* "input" before the call, "returned" or "threw" after it
    ptResult,       \* the ParseResult returned, or the Error thrown
    \* ColumnMapper
    cmRows,         \* sampleRows: the parsed rows
    cmMapping,      \* mapping: canonical field -> column header
    cmMapped,       \* the mappedData handed to onMappingComplete
    cmPhase,        \* "mapping" before handleProcessMapping, "mapped" after
    \* a second VendorNormalizer, constructed beside the first
    vnOtherRules,   \* its this.rules: references into vnHeap
    vnOtherSeen,    \* its rules as they were when it was constructed
    \* ImportPage, with its review table; its vendorNormalizer and
    \* autoCategorizer are the engines above
    ipUpload,       \* the FileUploadResult the upload step hands over
    ipUploadResults,\* uploadResults
    ipStep,         \* currentStep
    ipError,        \* error, "" for null
    ipReview,       \* reviewableTransactions
    ipAssigned,     \* the reviewable transactions as the pipeline made them
    ipEdits,        \* the edits, bulk updates and deletes made in the table
    ipProcessing,   \* isProcessing
    ipSaveArg,      \* the transactions handed to the last handleSaveAll
    ipSaveFrom,     \* the reviewable transactions when Save was clicked
    ipPending,      \* the FileUploadResults of the drop not yet handed over
    ipStored,       \* the rows inserted into the transactions table
    ipSaves,        \* the saves that got as far as the insert loop
    \* ColumnMapper, its headers prop
    cmHeaders,      \* headers: the column headers of the parsed data
    \* RememberCategorization, with an AutoCategorizer of its own (above)
    rcTransactions, \* the transactions prop
    rcIndex,        \* currentTransactionIndex
    rcCategorized,  \* categorizedTransactions
    rcSuggestion,   \* currentSuggestion, NoCatResult for null
    rcCompleted     \* the lists handed to onCategorizationComplete

csvVars == <<csvLine, csvDelimiter, csvValues, csvFields, csvPhase>>

hashVars == <<hashOrig, hashVariant, hashEditKind, hashOfOrig, hashOfVariant>>

dedupVars == <<dedupBatch, existingHashes, opInput, opOutput, lastOp>>

vendorVars == <<vnHeap, vnRules, vnCache, vnTrace>>

catVars == <<acHeap, acRules, acCategories, acTrace>>

parseVars == <<ptText, ptPhase, ptResult>>

mapperVars == <<cmRows, cmMapping, cmMapped, cmPhase>>

\* the variables of the components modelled after the categorizer
twinVars == <<vnOtherRules, vnOtherSeen>>

pageVars == <<ipUpload, ipUploadResults, ipStep, ipError, ipReview, ipAssigned,
              ipEdits, ipProcessing, ipSaveArg, ipSaveFrom>>

saveVars == <<ipPending, ipStored, ipSaves>>

suggestVars == <<cmHeaders>>

walkVars == <<rcTransactions, rcIndex, rcCategorized, rcSuggestion, rcCompleted>>

restVars == <<saveVars, suggestVars, walkVars>>

laterVars == <<parseVars, mapperVars, twinVars, pageVars, restVars>>

vars == <<csvLine, csvDelimiter, csvValues, csvFields, csvPhase, tzEastOfUtc,
          hashOrig, hashVariant, hashEditKind, hashOfOrig, hashOfVariant,
          dedupBatch, existingHashes, opInput, opOutput, lastOp,
          vnHeap, vnRules, vnCache, vnTrace,
          acHeap, acRules, acCategories, acTrace,
          ptText, ptPhase, ptResult,
          cmRows, cmMapping, cmMapped, cmPhase,
          vnOtherRules, vnOtherSeen,
          ipUpload, ipUploadResults, ipStep, ipError, ipReview, ipAssigned,
          ipEdits, ipProcessing, ipSaveArg, ipSaveFrom,
          ipPending, ipStored, ipSaves, cmHeaders,
          rcTransactions, rcIndex, rcCategorized, rcSuggestion, rcCompleted>>

-----------------------------------------------------------------------------
(* Strings                                                                 *)

\* the characters from..to of s (1-based, both included), cut to s
Slice(s, from, to) ==
    LET lo == IF from < 1 THEN 1 ELSE from
        hi == IF to > Len(s) THEN Len(s) ELSE to
    IN  IF lo > hi THEN "" ELSE SubSeq(s, lo, hi)

\* s[i] of JavaScript, 1-based; "" where JavaScript gives undefined
Char(s, i) == Slice(s, i, i)

\* all strings over the characters of alphabet with exactly n characters
RECURSIVE StringsOfLen(_, _)
StringsOfLen(alphabet, n) ==
    IF n = 0 THEN {""}
    ELSE {s \o c : s \in StringsOfLen(alphabet, n - 1), c \in alphabet}

\* all strings over the characters of alphabet with at most n characters
StringsUpTo(alphabet, n) == UNION {StringsOfLen(alphabet, k) : k \in 0..n}

\* String.prototype.includes
Includes(s, sub) ==
    \E i \in 1..(Len(s) - Len(sub) + 1) : Slice(s, i, i + Len(sub) - 1) = sub

\* the characters of s, as a sequence
Chars(s) == [i \in 1..Len(s) |-> Char(s, i)]

\* the strings of a sequence, concatenated
RECURSIVE Concat(_)
Concat(seq) ==
    IF Len(seq) = 0 THEN ""
    ELSE IF Len(seq) = 1 THEN seq[1]
    ELSE LET half == Len(seq) \div 2
         IN  Concat(SubSeq(seq, 1, half)) \o Concat(SubSeq(seq, half + 1, Len(seq)))

UpperLetters == "ABCDEFGHIJKLMNOPQRSTUVWXYZ"
LowerLetters == "abcdefghijklmnopqrstuvwxyz"
Digits == "0123456789"

UpperSet == {Char(UpperLetters, i) : i \in 1..Len(UpperLetters)}
LowerSet == {Char(LowerLetters, i) : i \in 1..Len(LowerLetters)}
DigitSet == {Char(Digits, i) : i \in 1..Len(Digits)}

LowerOf ==
    [c \in UpperSet |->
        Char(LowerLetters, CHOOSE i \in 1..Len(UpperLetters) : Char(UpperLetters, i) = c)]
UpperOf ==
    [c \in LowerSet |->
        Char(UpperLetters, CHOOSE i \in 1..Len(LowerLetters) : Char(LowerLetters, i) = c)]
DigitValue ==
    [c \in DigitSet |-> (CHOOSE i \in 1..Len(Digits) : Char(Digits, i) = c) - 1]

\* Math.abs on integers
Abs(n) == IF n < 0 THEN -n ELSE n

IsUpper(c) == c \in UpperSet
IsLower(c) == c \in LowerSet
\* \d
IsDigit(c) == c \in DigitSet
\* \w
IsWordChar(c) == IsUpper(c) \/ IsLower(c) \/ IsDigit(c) \/ c = "_"
\* \s
IsWhitespace(c) == c \in {" ", "\t", "\n", "\r", "\f"}

ToLowerChar(c) == IF IsUpper(c) THEN LowerOf[c] ELSE c
ToUpperChar(c) == IF IsLower(c) THEN UpperOf[c] ELSE c

\* String.prototype.toLowerCase
ToLowerCase(s) == Concat([i \in 1..Len(s) |-> ToLowerChar(Char(s, i))])

\* replace(/\s+/g, ' ')
CollapseWhitespace(s) ==
    Concat([i \in 1..Len(s) |->
               IF IsWhitespace(Char(s, i))
               THEN IF i > 1 /\ IsWhitespace(Char(s, i - 1)) THEN "" ELSE " "
               ELSE Char(s, i)])

\* String.prototype.trim
RECURSIVE TrimStart(_)
TrimStart(s) ==
    IF Len(s) > 0 /\ IsWhitespace(Char(s, 1)) THEN TrimStart(Slice(s, 2, Len(s))) ELSE s

RECURSIVE TrimEnd(_)
TrimEnd(s) ==
    IF Len(s) > 0 /\ IsWhitespace(Char(s, Len(s)))
    THEN TrimEnd(Slice(s, 1, Len(s) - 1)) ELSE s

Trim(s) == TrimEnd(TrimStart(s))

\* String.prototype.substring(0, n)
Substring0(s, n) == IF Len(s) <= n THEN s ELSE Slice(s, 1, n)

\* the decimal digits of a natural number
RECURSIVE NatToString(_)
NatToString(n) ==
    IF n < 10 THEN Char(Digits, n + 1)
    ELSE NatToString(n \div 10) \o Char(Digits, (n % 10) + 1)

\* the number a string of digits denotes
RECURSIVE ParseNat(_)
ParseNat(s) ==
    IF Len(s) = 0 THEN 0
    ELSE 10 * ParseNat(Slice(s, 1, Len(s) - 1)) + DigitValue[Char(s, Len(s))]

AllDigits(s) == \A i \in 1..Len(s) : IsDigit(Char(s, i))

\* padStart(width, '0') of a natural number
RECURSIVE PadZero(_, _)
PadZero(str, width) == IF Len(str) >= width THEN str ELSE PadZero("0" \o str, width)

-----------------------------------------------------------------------------
(* ClipboardParser.parseCSVLine                                            *)

DoubleQuote == "\""

\* the while loop of parseCSVLine: i is the 1-based position in line
RECURSIVE parseCSVLineLoop(_, _, _, _, _, _)
parseCSVLineLoop(line, delimiter, i, current, inQuotes, values) ==
    IF i > Len(line) THEN Append(values, current)
    ELSE LET char == Char(line, i)
             nextChar == Char(line, i + 1)
         IN  IF char = DoubleQuote
             THEN IF inQuotes /\ nextChar = DoubleQuote
                  THEN \* escaped quote
                       parseCSVLineLoop(line, delimiter, i + 2,
                                        current \o DoubleQuote, inQuotes, values)
                  ELSE \* toggle quote state
                       parseCSVLineLoop(line, delimiter, i + 1,
                                        current, ~inQuotes, values)
             ELSE IF char = delimiter /\ ~inQuotes
                  THEN parseCSVLineLoop(line, delimiter, i + 1,
                                        "", inQuotes, Append(values, current))
                  ELSE parseCSVLineLoop(line, delimiter, i + 1,
                                        current \o char, inQuotes, values)

\* a parseCSVLine that closes the quoted field at the first quote it meets
\* (no escaped-quote branch)
RECURSIVE parseCSVLineLoopNoEscape(_, _, _, _, _, _)
parseCSVLineLoopNoEscape(line, delimiter, i, current, inQuotes, values) ==
    IF i > Len(line) THEN Append(values, current)
    ELSE LET char == Char(line, i)
         IN  IF char = DoubleQuote
             THEN parseCSVLineLoopNoEscape(line, delimiter, i + 1,
                                           current, ~inQuotes, values)
             ELSE IF char = delimiter /\ ~inQuotes
                  THEN parseCSVLineLoopNoEscape(line, delimiter, i + 1,
                                                "", inQuotes, Append(values, current))
                  ELSE parseCSVLineLoopNoEscape(line, delimiter, i + 1,
                                                current \o char, inQuotes, values)

parseCSVLineNoEscape(line, delimiter) ==
    parseCSVLineLoopNoEscape(line, delimiter, 1, "", FALSE, <<>>)

parseCSVLine(line, delimiter) ==
    parseCSVLineLoop(line, delimiter, 1, "", FALSE, <<>>)

\* RFC 4180 writing of one field: a field holding the delimiter, a quote or
\* a line break is enclosed in quotes and each of its quotes is doubled
RECURSIVE DoubleTheQuotes(_)
DoubleTheQuotes(s) ==
    IF s = "" THEN ""
    ELSE (IF Char(s, 1) = DoubleQuote THEN DoubleQuote \o DoubleQuote ELSE Char(s, 1))
         \o DoubleTheQuotes(Slice(s, 2, Len(s)))

Rfc4180Field(field, delimiter) ==
    IF Includes(field, delimiter) \/ Includes(field, DoubleQuote)
       \/ Includes(field, "\n") \/ Includes(field, "\r")
    THEN DoubleQuote \o DoubleTheQuotes(field) \o DoubleQuote
    ELSE field

\* RFC 4180 writing of a record
RECURSIVE Rfc4180Join(_, _)
Rfc4180Join(fields, delimiter) ==
    IF Len(fields) = 0 THEN ""
    ELSE IF Len(fields) = 1 THEN Rfc4180Field(fields[1], delimiter)
    ELSE Rfc4180Field(fields[1], delimiter) \o delimiter
         \o Rfc4180Join(Tail(fields), delimiter)

\* bound: the longest raw line drawn from CsvAlphabet
MaxLineLen == 5

\* bound: the longest field of a written record
MaxFieldLen == 2

CsvAlphabet == {"a", ",", ";", DoubleQuote}

CsvDelimiters == {",", ";"}

\* the line of the spec's example: a,"b,c",d
QuotedCsvExample == "a,\"b,c\",d"

\* raw lines, as pasted
CsvLines == StringsUpTo(CsvAlphabet, MaxLineLen) \cup {QuotedCsvExample}

\* records of one or two fields, to be written as RFC 4180 lines
CsvRecords ==
    LET Fields == StringsUpTo(CsvAlphabet, MaxFieldLen)
    IN  {<<f>> : f \in Fields} \cup {<<f, g>> : f \in Fields, g \in Fields}

\* the input is a raw line, or a line an RFC 4180 writer made of a record
CsvInit ==
    /\ csvDelimiter \in CsvDelimiters
    /\ \/ csvLine \in CsvLines /\ csvFields = <<>>
       \/ /\ csvFields \in CsvRecords
          /\ csvLine = Rfc4180Join(csvFields, csvDelimiter)
    /\ csvValues = <<>>
    /\ csvPhase = "input"

\* ClipboardParser.parseCSVLine(csvLine, csvDelimiter)
ParseCSVLine ==
    /\ csvPhase = "input"
    /\ csvValues' = parseCSVLine(csvLine, csvDelimiter)
    /\ csvPhase' = "parsed"
    /\ UNCHANGED <<csvLine, csvDelimiter, csvFields>>
    /\ UNCHANGED <<tzEastOfUtc, hashVars, dedupVars, vendorVars, catVars, laterVars>>

\* the caller writes the parsed values back as an RFC 4180 record and hands
\* that record to the parser again
Requote ==
    /\ csvPhase = "parsed"
    /\ csvLine' = Rfc4180Join(csvValues, csvDelimiter)
    /\ csvFields' = csvValues
    /\ csvValues' = <<>>
    /\ csvPhase' = "input"
    /\ csvFields # csvValues
    /\ UNCHANGED csvDelimiter
    /\ UNCHANGED <<tzEastOfUtc, hashVars, dedupVars, vendorVars, catVars, laterVars>>

-----------------------------------------------------------------------------
(* C10: parseCSVLine honours RFC 4180 quoting.  The values of every line,  *)
(* written back as an RFC 4180 record (fields holding the delimiter or a   *)
(* quote enclosed in quotes, their quotes doubled), parse to the same      *)
(* values again: the delimiter splits only outside quotes, the enclosing   *)
(* quotes are dropped and a doubled quote is one literal quote.  The line  *)
(* a,"b,c",d yields exactly the three values a / b,c / d.                  *)
C10_QuotedCsvRoundTrip ==
    /\ (csvPhase = "parsed" /\ csvFields # <<>>) => csvValues = csvFields
    /\ csvPhase = "parsed" =>
           parseCSVLine(Rfc4180Join(csvValues, csvDelimiter), csvDelimiter) = csvValues
    /\ (csvPhase = "parsed" /\ csvLine = QuotedCsvExample /\ csvDelimiter = ",") =>
           csvValues = <<"a", "b,c", "d">>

\* a record whose field holds a literal quote and the delimiter was written
\* with quoting and parsed
C10_Witness ==
    /\ csvPhase = "parsed"
    /\ Len(csvFields) = 2
    /\ \E k \in 1..Len(csvFields) :
           Includes(csvFields[k], DoubleQuote) /\ Includes(csvFields[k], csvDelimiter)

-----------------------------------------------------------------------------
(* TransactionHasher                                                       *)
(*                                                                         *)
(* A transaction's amount is a number of thousandths, or NaN.               *)

Num(thousandths) == [isNaN |-> FALSE, thousandths |-> thousandths]
NaN == [isNaN |-> TRUE, thousandths |-> 0]

\* /^\d{4}-\d{2}-\d{2}$/.test(date)
IsIsoDate(date) ==
    /\ Len(date) = 10
    /\ AllDigits(Slice(date, 1, 4)) /\ Char(date, 5) = "-"
    /\ AllDigits(Slice(date, 6, 7)) /\ Char(date, 8) = "-"
    /\ AllDigits(Slice(date, 9, 10))

IsLeapYear(y) == (y % 4 = 0 /\ y % 100 # 0) \/ y % 400 = 0

DaysInMonth(y, m) ==
    IF m = 2 THEN (IF IsLeapYear(y) THEN 29 ELSE 28)
    ELSE IF m \in {4, 6, 9, 11} THEN 30 ELSE 31

\* new Date(date) for the one non-ISO form the model's inputs use,
\* MM/DD/YYYY, which the engine reads as local midnight of that day;
\* any other string is an Invalid Date
DateParse(date) ==
    IF /\ Len(date) = 10
       /\ AllDigits(Slice(date, 1, 2)) /\ Char(date, 3) = "/"
       /\ AllDigits(Slice(date, 4, 5)) /\ Char(date, 6) = "/"
       /\ AllDigits(Slice(date, 7, 10))
       /\ ParseNat(Slice(date, 1, 2)) \in 1..12
       /\ ParseNat(Slice(date, 4, 5)) \in
              1..DaysInMonth(ParseNat(Slice(date, 7, 10)), ParseNat(Slice(date, 1, 2)))
    THEN [valid |-> TRUE, y |-> ParseNat(Slice(date, 7, 10)),
          m |-> ParseNat(Slice(date, 1, 2)), d |-> ParseNat(Slice(date, 4, 5))]
    ELSE [valid |-> FALSE, y |-> 0, m |-> 0, d |-> 0]

\* parsed.toISOString().split('T')[0]: the UTC day of a local midnight is the
\* day before when local time is ahead of UTC
ToIsoDay(parsed, east) ==
    LET day == IF ~east THEN parsed
               ELSE IF parsed.d > 1 THEN [parsed EXCEPT !.d = parsed.d - 1]
               ELSE IF parsed.m > 1
                    THEN [parsed EXCEPT !.m = parsed.m - 1,
                                        !.d = DaysInMonth(parsed.y, parsed.m - 1)]
                    ELSE [parsed EXCEPT !.y = parsed.y - 1, !.m = 12, !.d = 31]
    IN  PadZero(NatToString(day.y), 4) \o "-" \o PadZero(NatToString(day.m), 2)
        \o "-" \o PadZero(NatToString(day.d), 2)

normalizeDate(date, east) ==
    IF date = "" THEN ""
    ELSE IF IsIsoDate(date) THEN date
    ELSE IF DateParse(date).valid THEN ToIsoDay(DateParse(date), east)
    ELSE date

\* Number.prototype.toFixed(2) of a number of thousandths (the model's
\* amounts never end in 5 thousandths, where the binary value decides)
ToFixed2(amount) ==
    LET abs == IF amount.thousandths < 0 THEN -amount.thousandths ELSE amount.thousandths
        hundredths == (abs + 5) \div 10
    IN  (IF amount.thousandths < 0 THEN "-" ELSE "")
        \o NatToString(hundredths \div 100) \o "." \o PadZero(NatToString(hundredths % 100), 2)

normalizeAmount(amount) ==
    IF amount.isNaN THEN "0.00" ELSE ToFixed2(amount)

\* substring(0, 100)
DescriptionLimit == 100

\* replace(/[^\w\s.-]/g, '')
StripSpecialCharacters(s) ==
    Concat([i \in 1..Len(s) |->
               IF IsWordChar(Char(s, i)) \/ IsWhitespace(Char(s, i))
                  \/ Char(s, i) \in {".", "-"}
               THEN Char(s, i) ELSE ""])

\* a normalizeDescription without toLowerCase
normalizeDescriptionKeepCase(description) ==
    IF description = "" THEN ""
    ELSE Substring0(StripSpecialCharacters(Trim(CollapseWhitespace(description))),
                    DescriptionLimit)

normalizeDescription(description) ==
    IF description = "" THEN ""
    ELSE Substring0(
             StripSpecialCharacters(Trim(CollapseWhitespace(ToLowerCase(description)))),
             DescriptionLimit)

normalizeTransactionData(transaction, east) ==
    [date |-> normalizeDate(transaction.date, east),
     amount |-> normalizeAmount(transaction.amount),
     description |-> normalizeDescription(transaction.description)]

\* crypto.subtle.digest('SHA-1', ...) as hex: SHA-1 is taken to be free of
\* collisions, a one-to-one function of its input
Sha1Hex(hashInput) == "sha1(" \o hashInput \o ")"

generateHash(transaction, east) ==
    LET normalizedData == normalizeTransactionData(transaction, east)
    IN  Sha1Hex(normalizedData.date \o "|" \o normalizedData.amount \o "|"
                \o normalizedData.description)

\* {...transaction, hash, isDuplicate}
WithHash(transaction, hash, isDuplicate) ==
    [f \in DOMAIN transaction \cup {"hash", "isDuplicate"} |->
        IF f = "hash" THEN hash
        ELSE IF f = "isDuplicate" THEN isDuplicate
        ELSE transaction[f]]

\* the loop of addHashesToTransactions from transaction i on
RECURSIVE addHashesLoop(_, _, _, _, _)
addHashesLoop(transactions, east, i, hashedTransactions, seenHashes) ==
    IF i > Len(transactions) THEN hashedTransactions
    ELSE LET hash == generateHash(transactions[i], east)
             isDuplicate == hash \in seenHashes
         IN  addHashesLoop(transactions, east, i + 1,
                 Append(hashedTransactions, WithHash(transactions[i], hash, isDuplicate)),
                 seenHashes \cup {hash})

\* an addHashesToTransactions that never adds to seenHashes
addHashesNeverSeen(transactions, east) ==
    [i \in 1..Len(transactions) |->
        WithHash(transactions[i], generateHash(transactions[i], east), FALSE)]

addHashesToTransactions(transactions, east) ==
    addHashesLoop(transactions, east, 1, <<>>, {})

\* a checkForDuplicates that drops the transactions it flags
checkForDuplicatesDropping(newTransactions, existing, east) ==
    SelectSeq([i \in 1..Len(newTransactions) |->
                  WithHash(newTransactions[i], generateHash(newTransactions[i], east),
                           generateHash(newTransactions[i], east) \in existing)],
              LAMBDA t : ~t.isDuplicate)

checkForDuplicates(newTransactions, existing, east) ==
    [i \in 1..Len(newTransactions) |->
        WithHash(newTransactions[i], generateHash(newTransactions[i], east),
                 generateHash(newTransactions[i], east) \in existing)]

\* the loop of getUniqueTransactions from transaction i on
RECURSIVE getUniqueLoop(_, _, _, _)
getUniqueLoop(transactions, i, uniqueTransactions, seenHashes) ==
    IF i > Len(transactions) THEN uniqueTransactions
    ELSE IF transactions[i].hash \notin seenHashes
         THEN getUniqueLoop(transactions, i + 1,
                  Append(uniqueTransactions, [transactions[i] EXCEPT !.isDuplicate = FALSE]),
                  seenHashes \cup {transactions[i].hash})
         ELSE getUniqueLoop(transactions, i + 1, uniqueTransactions, seenHashes)

getUniqueTransactions(transactions) == getUniqueLoop(transactions, 1, <<>>, {})

-----------------------------------------------------------------------------
(* generateHash on a transaction and on a rewriting of its description     *)

\* bound: the longest description drawn from HashAlphabet
MaxDescLen == 4

HashAlphabet == {"a", "B", " ", "!"}

\* characters other than word characters, whitespace, '.' and '-'
Punctuation == {"!"}

Repeat(s, n) == Concat([i \in 1..n |-> s])

\* a description that is longer than DescriptionLimit once normalized
LongDescription == Repeat("0", DescriptionLimit - 2) \o "!  aB"

HashDescriptions == StringsUpTo(HashAlphabet, MaxDescLen) \cup {LongDescription}

HashDates == {"2024-01-15", "01/15/2024"}

HashAmounts == {Num(-125430)}

\* s with character c put in after its first i characters
InsertAt(s, i, c) == Slice(s, 1, i) \o c \o Slice(s, i + 1, Len(s))

\* s without its character i
RemoveAt(s, i) == Slice(s, 1, i - 1) \o Slice(s, i + 1, Len(s))

\* s with its character i replaced by c
ReplaceAt(s, i, c) == Slice(s, 1, i - 1) \o c \o Slice(s, i + 1, Len(s))

HashInit ==
    /\ hashOrig \in [date : HashDates, amount : HashAmounts, description : HashDescriptions]
    /\ hashVariant = hashOrig
    /\ hashEditKind \in {"case or whitespace", "punctuation"}
    /\ hashOfOrig = ""
    /\ hashOfVariant = ""

HashFrame ==
    UNCHANGED <<csvVars, tzEastOfUtc, dedupVars, vendorVars, catVars, laterVars,
                hashOrig, hashEditKind>>

\* the variant's description gets one letter in the other case
ChangeCase ==
    /\ hashEditKind = "case or whitespace"
    /\ hashOfOrig = ""
    /\ \E i \in 1..Len(hashVariant.description) :
          LET c == Char(hashVariant.description, i)
          IN  /\ IsUpper(c) \/ IsLower(c)
              /\ hashVariant' = [hashVariant EXCEPT !.description =
                     ReplaceAt(@, i, IF IsUpper(c) THEN ToLowerChar(c) ELSE ToUpperChar(c))]
    /\ UNCHANGED <<hashOfOrig, hashOfVariant>>
    /\ HashFrame

\* the variant's description gets one more space at its start, at its end or
\* in a run of whitespace
InsertWhitespace ==
    /\ hashEditKind = "case or whitespace"
    /\ hashOfOrig = ""
    /\ Len(hashVariant.description) < MaxDescLen
    /\ \E i \in 0..Len(hashVariant.description) :
          LET d == hashVariant.description
          IN  /\ \/ i = 0
                 \/ i = Len(d)
                 \/ IsWhitespace(Char(d, i))
                 \/ IsWhitespace(Char(d, i + 1))
              /\ hashVariant' = [hashVariant EXCEPT !.description = InsertAt(d, i, " ")]
    /\ UNCHANGED <<hashOfOrig, hashOfVariant>>
    /\ HashFrame

\* the variant's description loses one space at its start, at its end or in
\* a run of whitespace
RemoveWhitespace ==
    /\ hashEditKind = "case or whitespace"
    /\ hashOfOrig = ""
    /\ \E i \in 1..Len(hashVariant.description) :
          LET d == hashVariant.description
          IN  /\ IsWhitespace(Char(d, i))
              /\ \/ i = 1
                 \/ i = Len(d)
                 \/ IsWhitespace(Char(d, i - 1))
                 \/ IsWhitespace(Char(d, i + 1))
              /\ hashVariant' = [hashVariant EXCEPT !.description = RemoveAt(d, i)]
    /\ UNCHANGED <<hashOfOrig, hashOfVariant>>
    /\ HashFrame

\* the variant's description gets a punctuation character, anywhere
InsertPunctuation ==
    /\ hashEditKind = "punctuation"
    /\ hashOfOrig = ""
    /\ Len(hashVariant.description) < MaxDescLen
    /\ \E i \in 0..Len(hashVariant.description), c \in Punctuation :
          hashVariant' = [hashVariant EXCEPT !.description = InsertAt(@, i, c)]
    /\ UNCHANGED <<hashOfOrig, hashOfVariant>>
    /\ HashFrame

\* the variant's description loses a punctuation character
RemovePunctuation ==
    /\ hashEditKind = "punctuation"
    /\ hashOfOrig = ""
    /\ \E i \in 1..Len(hashVariant.description) :
          /\ Char(hashVariant.description, i) \in Punctuation
          /\ hashVariant' = [hashVariant EXCEPT !.description = RemoveAt(@, i)]
    /\ UNCHANGED <<hashOfOrig, hashOfVariant>>
    /\ HashFrame

\* TransactionHasher.generateHash(hashOrig)
GenerateHashOfOrig ==
    /\ hashOfOrig = ""
    /\ hashOfOrig' = generateHash(hashOrig, tzEastOfUtc)
    /\ UNCHANGED <<hashVariant, hashOfVariant>>
    /\ HashFrame

\* TransactionHasher.generateHash(hashVariant)
GenerateHashOfVariant ==
    /\ hashOfOrig # ""
    /\ hashOfVariant = ""
    /\ hashOfVariant' = generateHash(hashVariant, tzEastOfUtc)
    /\ UNCHANGED <<hashVariant, hashOfOrig>>
    /\ HashFrame

(* C2: generateHash is deterministic and insensitive to letter case and to *)
(* the amount of whitespace: a transaction and any rewriting of it that    *)
(* changes only the case of letters of the description, or the number of   *)
(* spaces in a run of whitespace or at the start or the end of the         *)
(* description (no rewriting at all included: a repeated call), get the    *)
(* same hash.                                                              *)
C2_HashCaseWhitespaceInsensitive ==
    (hashEditKind = "case or whitespace" /\ hashOfOrig # "" /\ hashOfVariant # "")
        => hashOfVariant = hashOfOrig

\* "a  B" and " A b" were both hashed
C2_Witness ==
    /\ hashEditKind = "case or whitespace"
    /\ hashOrig.description = "a  B"
    /\ hashVariant.description = " A b"
    /\ hashOfOrig # ""
    /\ hashOfVariant = hashOfOrig

(* C3: two transactions of equal date and amount whose descriptions differ *)
(* only in punctuation (characters other than word characters, whitespace, *)
(* '.' and '-'), wherever it stands, get the same hash.                    *)
C3_HashPunctuationInsensitive ==
    (hashEditKind = "punctuation" /\ hashOfOrig # "" /\ hashOfVariant # "")
        => hashOfVariant = hashOfOrig

-----------------------------------------------------------------------------
(* TransactionHasher's operations on lists                                 *)

\* bound: the longest batch
MaxBatch == 3

RECURSIVE SeqsOfLen(_, _)
SeqsOfLen(S, n) ==
    IF n = 0 THEN {<<>>}
    ELSE {Append(q, x) : q \in SeqsOfLen(S, n - 1), x \in S}

SeqsUpTo(S, n) == UNION {SeqsOfLen(S, k) : k \in 0..n}

MappedTransaction(date, amount, description) ==
    [date |-> date, amount |-> amount, description |-> description,
     account |-> "Checking"]

\* the mapped transactions batches are made of
DedupPool ==
    {MappedTransaction("2024-01-15", Num(-125430), "WALMART SUPERCENTER"),
     MappedTransaction("2024-01-15", Num(-125434), "Walmart  Supercenter!"),
     MappedTransaction("01/15/2024", Num(-125430), "WALMART SUPERCENTER"),
     MappedTransaction("2024-01-16", Num(-4850), "STARBUCKS #2291"),
     MappedTransaction("2024-01-16", NaN, "STARBUCKS #2291")}

DedupInit ==
    /\ dedupBatch \in SeqsUpTo(DedupPool, MaxBatch)
    /\ existingHashes \in
         {{}} \cup {{generateHash(t, tzEastOfUtc)} :
                       t \in {MappedTransaction("2024-01-15", Num(-125430), "WALMART SUPERCENTER"),
                              MappedTransaction("2024-01-16", Num(-4850), "STARBUCKS #2291")}}
    /\ opInput = <<>>
    /\ opOutput = <<>>
    /\ lastOp = "none"

DedupFrame ==
    UNCHANGED <<csvVars, tzEastOfUtc, hashVars, vendorVars, catVars, laterVars,
                dedupBatch, existingHashes>>

\* TransactionHasher.addHashesToTransactions(dedupBatch)
AddHashesToTransactions ==
    /\ lastOp = "none"
    /\ opInput' = dedupBatch
    /\ opOutput' = addHashesToTransactions(dedupBatch, tzEastOfUtc)
    /\ lastOp' = "addHashesToTransactions"
    /\ DedupFrame

\* TransactionHasher.checkForDuplicates(dedupBatch, existingHashes)
CheckForDuplicates ==
    /\ lastOp = "none"
    /\ opInput' = dedupBatch
    /\ opOutput' = checkForDuplicates(dedupBatch, existingHashes, tzEastOfUtc)
    /\ lastOp' = "checkForDuplicates"
    /\ DedupFrame

\* TransactionHasher.getUniqueTransactions on the list the last operation
\* returned
GetUniqueTransactions ==
    /\ lastOp \in {"addHashesToTransactions", "checkForDuplicates"}
    /\ opInput' = opOutput
    /\ opOutput' = getUniqueTransactions(opOutput)
    /\ lastOp' = "getUniqueTransactions"
    /\ DedupFrame

(* C1: within one call of addHashesToTransactions, for every hash that    *)
(* occurs in the batch exactly one transaction with that hash has          *)
(* isDuplicate = FALSE, it is the first one in input order, and every      *)
(* later transaction with that hash has isDuplicate = TRUE.                *)
C1_FirstOccurrenceWins ==
    lastOp = "addHashesToTransactions" =>
        /\ Len(opOutput) = Len(opInput)
        /\ \A i \in 1..Len(opOutput) :
              /\ opOutput[i].hash = generateHash(opInput[i], tzEastOfUtc)
              /\ LET same == {j \in 1..Len(opOutput) : opOutput[j].hash = opOutput[i].hash}
                     first == CHOOSE j \in same : \A k \in same : j <= k
                 IN  /\ {j \in same : ~opOutput[j].isDuplicate} = {first}
                     /\ \A j \in same : j > first => opOutput[j].isDuplicate

\* a batch of three transactions of one hash, written three different ways,
\* went through addHashesToTransactions
C1_Witness ==
    /\ lastOp = "addHashesToTransactions"
    /\ Len(opOutput) = 3
    /\ opOutput[1].hash = opOutput[2].hash /\ opOutput[2].hash = opOutput[3].hash
    /\ Cardinality({opInput[1], opInput[2], opInput[3]}) = 3
    /\ opOutput[2].isDuplicate /\ opOutput[3].isDuplicate

\* output transaction out is input transaction in with hash and isDuplicate
\* set and nothing else changed
Annotates(out, in) ==
    /\ DOMAIN out = DOMAIN in \cup {"hash", "isDuplicate"}
    /\ \A f \in DOMAIN in \ {"hash", "isDuplicate"} : out[f] = in[f]

\* the positions of the first transaction of each hash, in input order
FirstOfEachHash(transactions) ==
    {i \in 1..Len(transactions) :
        \A j \in 1..(i - 1) : transactions[j].hash # transactions[i].hash}

(* C4, as claimed: no Transaction Hasher operation that takes a list       *)
(* returns fewer transactions than it was given; each returns one output   *)
(* per input, in input order, the input fields unchanged.                  *)
C4_NoOperationDeletes ==
    lastOp \in {"addHashesToTransactions", "checkForDuplicates", "getUniqueTransactions"} =>
        /\ Len(opOutput) = Len(opInput)
        /\ \A i \in 1..Len(opOutput) : Annotates(opOutput[i], opInput[i])

(* C4, amended: addHashesToTransactions and checkForDuplicates only        *)
(* annotate: each returns one output per input, in input order, with the   *)
(* input fields unchanged and only hash and isDuplicate set.               *)
(* getUniqueTransactions is the one operation that returns fewer: it       *)
(* returns the first transaction of each hash, in input order, unchanged   *)
(* but for isDuplicate = FALSE, and drops every later one.                 *)
C4_AnnotatingOperationsKeepAll ==
    /\ lastOp \in {"addHashesToTransactions", "checkForDuplicates"} =>
          /\ Len(opOutput) = Len(opInput)
          /\ \A i \in 1..Len(opOutput) : Annotates(opOutput[i], opInput[i])
    /\ lastOp = "getUniqueTransactions" =>
          /\ Len(opOutput) = Cardinality(FirstOfEachHash(opInput))
          /\ \A k \in 1..Len(opOutput) :
                LET i == CHOOSE i \in FirstOfEachHash(opInput) :
                            Cardinality({j \in FirstOfEachHash(opInput) : j <= i}) = k
                IN  /\ Annotates(opOutput[k], opInput[i])
                    /\ opOutput[k].hash = opInput[i].hash
                    /\ opOutput[k].isDuplicate = FALSE

\* checkForDuplicates flagged a transaction of a three-transaction batch and
\* kept all three, and getUniqueTransactions then returned fewer
C4_Witness ==
    /\ lastOp = "getUniqueTransactions"
    /\ Len(opInput) = 3
    /\ Len(opOutput) = 2
    /\ \E i \in 1..3 : opInput[i].isDuplicate /\ opInput[i].hash \in existingHashes

(* C5: a transaction is flagged isDuplicate = TRUE whenever another        *)
(* transaction earlier in the same batch produced the same hash or its     *)
(* hash is in the caller's existing-hash set; in particular                *)
(* checkForDuplicates flags the second of two identical new transactions   *)
(* even when their hash is not in the existing-hash set.                   *)
C5_FlaggedWhenEarlierOrExisting ==
    /\ lastOp = "addHashesToTransactions" =>
          \A i \in 1..Len(opOutput) :
              (\E j \in 1..(i - 1) : opOutput[j].hash = opOutput[i].hash)
                  => opOutput[i].isDuplicate
    /\ lastOp = "checkForDuplicates" =>
          \A i \in 1..Len(opOutput) :
              (\/ \E j \in 1..(i - 1) : opOutput[j].hash = opOutput[i].hash
               \/ opOutput[i].hash \in existingHashes)
                  => opOutput[i].isDuplicate

-----------------------------------------------------------------------------
(* Numbers.  A confidence held by a rule is a whole number of hundredths   *)
(* (0.95 is 95); a score computed from one is the exact fraction.          *)

RECURSIVE Gcd(_, _)
Gcd(a, b) == IF b = 0 THEN a ELSE Gcd(b, a % b)

Ratio(n, d) ==
    IF n = 0 THEN [num |-> 0, den |-> 1]
    ELSE LET g == Gcd(n, d) IN [num |-> n \div g, den |-> d \div g]

Hundredths(c) == Ratio(c, 100)

RatioLess(a, b) == a.num * b.den < b.num * a.den

RatioTimes(a, b) == Ratio(a.num * b.num, a.den * b.den)

Min(a, b) == IF a < b THEN a ELSE b

Max(a, b) == IF a > b THEN a ELSE b

\* the sign of a - b
RatioCompare(a, b) ==
    IF RatioLess(a, b) THEN -1 ELSE IF RatioLess(b, a) THEN 1 ELSE 0

\* the whole hundredths h for which the doubles h/100 and (h+10)/100 are
\* less than 0.1 apart
DoubleTenthBelow ==
    {2, 5, 8, 11, 14, 19, 20, 25, 26, 27, 28, 31, 32, 33, 34, 37, 38, 39, 40,
     47, 48, 49, 50, 51, 52, 53, 54, 55, 56, 59, 60, 61, 62, 63, 64, 65, 66,
     67, 68, 72, 73, 74, 75, 76, 77, 78, 79, 80, 81, 84, 85, 86, 87, 88, 89,
     90}

\* Math.abs(a - b) < 0.1 on doubles: exact when the scores are not exactly a
\* tenth apart, by the table when they are
WithinTenth(a, b) ==
    LET lo   == IF RatioLess(a, b) THEN a ELSE b
        hi   == IF RatioLess(a, b) THEN b ELSE a
        diff == Ratio(hi.num * lo.den - lo.num * hi.den, hi.den * lo.den)
    IN  IF diff = Ratio(1, 10) /\ 100 % lo.den = 0
        THEN (lo.num * (100 \div lo.den)) \in DoubleTenthBelow
        ELSE RatioLess(diff, Ratio(1, 10))

\* s.split(/\s+/)
RECURSIVE SplitLoop(_, _, _, _)
SplitLoop(s, i, current, out) ==
    IF i > Len(s) THEN Append(out, current)
    ELSE IF IsWhitespace(Char(s, i))
         THEN IF IsWhitespace(Char(s, i + 1))
              THEN SplitLoop(s, i + 1, current, out)
              ELSE SplitLoop(s, i + 1, "", Append(out, current))
         ELSE SplitLoop(s, i + 1, current \o Char(s, i), out)

SplitWhitespace(s) == SplitLoop(s, 1, "", <<>>)

\* array.slice(from, to), both zero-based, to exclusive
SliceSeq(seq, from, to) == SubSeq(seq, from + 1, Min(to, Len(seq)))

\* the element of a one-element set; Only({F(x) : x \in {e}}) is F(e) with e
\* evaluated once
Only(S) == CHOOSE x \in S : TRUE

\* the first index >= i of s that holds no whitespace
RECURSIVE SkipWhitespace(_, _)
SkipWhitespace(s, i) ==
    IF i <= Len(s) /\ IsWhitespace(Char(s, i)) THEN SkipWhitespace(s, i + 1) ELSE i

\* the first index >= i of s that holds no word character
RECURSIVE SkipWord(_, _)
SkipWord(s, i) ==
    IF i <= Len(s) /\ IsWordChar(Char(s, i)) THEN SkipWord(s, i + 1) ELSE i

\* Array.prototype.sort(cmp) as V8 runs it on an array of fewer than 64
\* elements: the leading run is found (a strictly descending one is
\* reversed) and the rest is put in place by binary insertion.  The sort is
\* stable; cmp need not be a consistent ordering.  The array is given by the
\* indices 1..n of its elements and cmp[<<i, j>>] is the comparator's result
\* on the elements i and j; the result is the indices in sorted order.
RECURSIVE BinarySearchLeft(_, _, _, _, _)
BinarySearchLeft(seq, pivot, left, right, cmp) ==
    IF left >= right THEN left
    ELSE LET mid == left + ((right - left) \div 2)
         IN  IF cmp[<<pivot, seq[mid + 1]>>] < 0
             THEN BinarySearchLeft(seq, pivot, left, mid, cmp)
             ELSE BinarySearchLeft(seq, pivot, mid + 1, right, cmp)

RECURSIVE BinaryInsertionSort(_, _, _)
BinaryInsertionSort(seq, start, cmp) ==
    IF start >= Len(seq) THEN seq
    ELSE LET pivot == seq[start + 1]
             left  == BinarySearchLeft(seq, pivot, 0, start, cmp)
             moved == SubSeq(seq, 1, left) \o <<pivot>>
                        \o SubSeq(seq, left + 1, start)
                        \o SubSeq(seq, start + 2, Len(seq))
         IN  BinaryInsertionSort(moved, start + 1, cmp)

RECURSIVE CountRun(_, _, _, _)
CountRun(seq, idx, isDescending, cmp) ==
    IF idx > Len(seq) THEN Len(seq)
    ELSE LET order == cmp[<<seq[idx], seq[idx - 1]>>]
         IN  IF (isDescending /\ order >= 0) \/ (~isDescending /\ order < 0)
             THEN idx - 1
             ELSE CountRun(seq, idx + 1, isDescending, cmp)

ReverseSeq(seq) == [i \in 1..Len(seq) |-> seq[Len(seq) + 1 - i]]

ArraySort(n, cmp) ==
    LET seq == [i \in 1..n |-> i]
    IN  IF n < 2 THEN seq
        ELSE LET isDescending == cmp[<<2, 1>>] < 0
                 runLength    == CountRun(seq, 3, isDescending, cmp)
                 run          == IF isDescending
                                 THEN ReverseSeq(SubSeq(seq, 1, runLength))
                                        \o SubSeq(seq, runLength + 1, n)
                                 ELSE seq
             IN  BinaryInsertionSort(run, runLength, cmp)

\* new RegExp(pattern, 'i').test(text), for the patterns the rules hold: the
\* anchored literal of the seed rule square-1, and patterns made of literal
\* characters only
RegExpTest(pattern, text) ==
    IF pattern = "^sq \\*" THEN ToLowerCase(Slice(text, 1, 4)) = "sq *"
    ELSE Includes(ToLowerCase(text), ToLowerCase(pattern))

-----------------------------------------------------------------------------
(* VendorNormalizer                                                        *)

VendorRule(id, pattern, normalizedName, confidence, isRegex, isUserDefined, useCount) ==
    [id |-> id, pattern |-> pattern, normalizedName |-> normalizedName,
     confidence |-> confidence, isRegex |-> isRegex,
     isUserDefined |-> isUserDefined, useCount |-> useCount]

DEFAULT_NORMALIZATION_RULES ==
    <<VendorRule("amazon-1", "amzn", "Amazon", 95, FALSE, FALSE, 0),
      VendorRule("amazon-2", "amazon", "Amazon", 95, FALSE, FALSE, 0),
      VendorRule("walmart-1", "wal-mart", "Walmart", 95, FALSE, FALSE, 0),
      VendorRule("walmart-2", "walmart", "Walmart", 95, FALSE, FALSE, 0),
      VendorRule("starbucks-1", "starbucks", "Starbucks", 95, FALSE, FALSE, 0),
      VendorRule("starbucks-2", "sbux", "Starbucks", 90, FALSE, FALSE, 0),
      VendorRule("mcdonalds-1", "mcdonalds", "McDonald's", 95, FALSE, FALSE, 0),
      VendorRule("mcdonalds-2", "mcdonald", "McDonald's", 90, FALSE, FALSE, 0),
      VendorRule("shell-1", "shell", "Shell", 90, FALSE, FALSE, 0),
      VendorRule("chevron-1", "chevron", "Chevron", 90, FALSE, FALSE, 0),
      VendorRule("netflix-1", "netflix", "Netflix", 95, FALSE, FALSE, 0),
      VendorRule("target-1", "target", "Target", 90, FALSE, FALSE, 0),
      VendorRule("square-1", "^sq \\*", "Local Business", 60, TRUE, FALSE, 0)>>

BankingPrefixes == <<"SQ *", "TST*", "PAYPAL *", "POS ", "DDA ", "ATM ">>

\* .replace(/^(SQ \*|TST\*|PAYPAL \*|POS |DDA |ATM )/gi, '')
RemoveBankingPrefix(name) ==
    LET matching == {k \in 1..Len(BankingPrefixes) :
                        ToLowerCase(Slice(name, 1, Len(BankingPrefixes[k])))
                            = ToLowerCase(BankingPrefixes[k])}
    IN  IF matching = {} THEN name
        ELSE LET k == CHOOSE k \in matching : \A m \in matching : k <= m
             IN  Slice(name, Len(BankingPrefixes[k]) + 1, Len(name))

\* .replace(/\s*[#*]\s*[\w\d]+/g, '')
RECURSIVE RemoveTransactionCodes(_, _, _)
RemoveTransactionCodes(s, i, out) ==
    IF i > Len(s) THEN out
    ELSE LET j == SkipWhitespace(s, i)
             k == SkipWhitespace(s, j + 1)
             m == SkipWord(s, k)
         IN  IF Char(s, j) \in {"#", "*"} /\ m > k
             THEN RemoveTransactionCodes(s, m, out)
             ELSE RemoveTransactionCodes(s, i + 1, out \o Char(s, i))

\* the first index >= from of s that holds c, 0 when there is none
FirstIndexOf(s, c, from) ==
    LET found == {i \in from..Len(s) : Char(s, i) = c}
    IN  IF found = {} THEN 0 ELSE CHOOSE i \in found : \A j \in found : i <= j

\* .replace(/\s*\([^)]*\)/, ''): the leftmost match only
RemoveParenthesized(s) ==
    LET starts == {i \in 1..Len(s) :
                      LET j == SkipWhitespace(s, i)
                      IN  Char(s, j) = "(" /\ FirstIndexOf(s, ")", j + 1) > 0}
    IN  IF starts = {} THEN s
        ELSE LET i == CHOOSE i \in starts : \A j \in starts : i <= j
                 k == FirstIndexOf(s, ")", SkipWhitespace(s, i) + 1)
             IN  Slice(s, 1, i - 1) \o Slice(s, k + 1, Len(s))

\* where the longest suffix of word characters starts, Len(s) + 1 when empty
RECURSIVE WordSuffixStart(_, _)
WordSuffixStart(s, i) ==
    IF i >= 1 /\ IsWordChar(Char(s, i)) THEN WordSuffixStart(s, i - 1) ELSE i + 1

\* where the run of whitespace that ends at index i starts, i + 1 when empty
RECURSIVE WhitespaceRunStart(_, _)
WhitespaceRunStart(s, i) ==
    IF i >= 1 /\ IsWhitespace(Char(s, i)) THEN WhitespaceRunStart(s, i - 1) ELSE i + 1

\* .replace(/\s+[\w\d]{10,}$/, '')
RemoveTrailingCode(s) ==
    LET w == WordSuffixStart(s, Len(s))
        r == WhitespaceRunStart(s, w - 1)
    IN  IF Len(s) - w + 1 >= 10 /\ r <= w - 1 THEN Slice(s, 1, r - 1) ELSE s

\* .replace(/\s+\d{1,2}\/\d{1,2}$/, '')
RemoveTrailingDate(s) ==
    LET Start(a, b) == Len(s) - (a + b)
        shapes == {ab \in {1, 2} \X {1, 2} :
                      LET start == Start(ab[1], ab[2])
                      IN  /\ start >= 2
                          /\ AllDigits(Slice(s, start, start + ab[1] - 1))
                          /\ Char(s, start + ab[1]) = "/"
                          /\ AllDigits(Slice(s, start + ab[1] + 1, Len(s)))
                          /\ IsWhitespace(Char(s, start - 1))}
    IN  IF shapes = {} THEN s
        ELSE LET ab == CHOOSE ab \in shapes : TRUE
             IN  Slice(s, 1, WhitespaceRunStart(s, Start(ab[1], ab[2]) - 1) - 1)

preCleanVendorName(name) ==
    LET cleaned ==
            Trim(CollapseWhitespace(RemoveTrailingDate(RemoveTrailingCode(
                RemoveParenthesized(
                    RemoveTransactionCodes(RemoveBankingPrefix(name), 1, ""))))))
    IN  IF cleaned = "" THEN name ELSE cleaned

Vendor_calculateWordSimilarity(str1, str2) ==
    LET words1 == SplitWhitespace(str1)
        words2 == SplitWhitespace(str2)
        Alike(word1, word2) ==
            \/ word1 = word2
            \/ /\ Len(word1) > 3
               /\ Len(word2) > 3
               /\ Includes(word1, word2) \/ Includes(word2, word1)
        matches == Cardinality({i \in 1..Len(words1) :
                                   \E j \in 1..Len(words2) : Alike(words1[i], words2[j])})
    IN  Ratio(matches, Max(Len(words1), Len(words2)))

extractPatternsFromCorrection(original, corrected) ==
    LET significantParts == SelectSeq(SplitWhitespace(original), LAMBDA part : Len(part) > 2)
        primaryPattern   == IF significantParts = <<>> THEN original
                            ELSE significantParts[1]
    IN  [primary |-> ToLowerCase(primaryPattern), isRegex |-> FALSE]

\* the vendor texts the calls are made with
VendorNames ==
    {"SQ *COFFEE 123", "STARBUCKS #2291", "LUNA", "TST* LUNA CAFE (PDX) 12/31"}

\* the names the user corrects a vendor to
CorrectedNames == {"Luna Coffee", "Starbucks"}

\* the rules a caller may hand to the constructor as existingRules
VendorExistingRules ==
    {VendorRule("stored-1", "luna", "Luna Coffee", 90, FALSE, TRUE, 1),
     VendorRule("stored-2", "luna", "Luna Cafe", 90, FALSE, FALSE, 1),
     VendorRule("stored-3", "luna", "Luna Bakery", 85, FALSE, TRUE, 2)}

\* preCleanVendorName on the vendor texts, computed once
PreCleanTable ==
    LET table == [name \in VendorNames |-> preCleanVendorName(name)]
    IN  table @@ table

Vendor_cleaned(name) ==
    IF name \in DOMAIN PreCleanTable THEN PreCleanTable[name] ELSE preCleanVendorName(name)

\* how findMatchingRules matches a literal pattern: exactly, or by a factor
\* it multiplies the confidence of the rule with (the length ratio when one
\* text holds the other, the word similarity when that is over 0.7, else 0)
Vendor_literalMatch(vendorName, pattern) ==
    LET lowerName    == ToLowerCase(vendorName)
        patternLower == ToLowerCase(pattern)
        similarity   == Vendor_calculateWordSimilarity(lowerName, patternLower)
    IN  [exact  |-> lowerName = patternLower,
         factor |-> IF Includes(lowerName, patternLower) \/ Includes(patternLower, lowerName)
                    THEN Ratio(Min(Len(patternLower), Len(lowerName)),
                               Max(Len(patternLower), Len(lowerName)))
                    ELSE IF RatioLess(Ratio(7, 10), similarity) THEN similarity
                    ELSE Ratio(0, 1)]

\* the confidence of a rule with the bonus of an exact match left uncapped
Vendor_matchConfidenceUncapped(rule, vendorName) ==
    IF rule.isRegex
    THEN IF RegExpTest(rule.pattern, vendorName)
         THEN Hundredths(rule.confidence) ELSE Ratio(0, 1)
    ELSE Only({IF match.exact THEN Hundredths(rule.confidence + 10)
               ELSE RatioTimes(Hundredths(rule.confidence), match.factor) :
                 match \in {Vendor_literalMatch(vendorName, rule.pattern)}})

\* the confidence findMatchingRules computes for one rule
Vendor_matchConfidence(rule, vendorName) ==
    IF rule.isRegex
    THEN IF RegExpTest(rule.pattern, vendorName)
         THEN Hundredths(rule.confidence) ELSE Ratio(0, 1)
    ELSE Only({IF match.exact THEN Hundredths(Min(rule.confidence + 10, 100))
               ELSE RatioTimes(Hundredths(rule.confidence), match.factor) :
                 match \in {Vendor_literalMatch(vendorName, rule.pattern)}})

\* the matches, in the order of this.rules; a match holds the reference of
\* its rule
findMatchingRules(heap, rules, vendorName) ==
    LET Reasonable(ref) ==
            RatioLess(Ratio(3, 10), Vendor_matchConfidence(heap[ref], vendorName))
        refs == SelectSeq(rules, Reasonable)
    IN  [i \in 1..Len(refs) |->
            [name       |-> heap[refs[i]].normalizedName,
             confidence |-> Vendor_matchConfidence(heap[refs[i]], vendorName),
             rule       |-> refs[i]]]

\* the comparator normalizeVendor sorts the matches with
Vendor_compareMatches(heap, a, b) ==
    IF WithinTenth(a.confidence, b.confidence)
    THEN heap[b.rule].useCount - heap[a.rule].useCount
    ELSE RatioCompare(b.confidence, a.confidence)

Vendor_sortMatches(heap, matches) ==
    LET n     == Len(matches)
        cmp   == [p \in (1..n) \X (1..n) |->
                     Vendor_compareMatches(heap, matches[p[1]], matches[p[2]])]
        order == ArraySort(n, cmp)
    IN  [i \in 1..n |-> matches[order[i]]]

\* what normalizeVendor returns once the name is cleaned and the matches are
\* sorted; rule is 0 when the result has no rule
Vendor_result(heap, originalName, cleanedOriginal, sortedMatches) ==
    IF Len(sortedMatches) = 0
    THEN [originalName   |-> originalName,
          normalizedName |-> cleanedOriginal,
          confidence     |-> Ratio(3, 10),
          rule           |-> 0,
          suggestions    |-> <<>>,
          needsReview    |-> TRUE]
    ELSE [originalName   |-> originalName,
          normalizedName |-> sortedMatches[1].name,
          confidence     |-> sortedMatches[1].confidence,
          rule           |-> sortedMatches[1].rule,
          suggestions    |-> SliceSeq(sortedMatches, 1, 4),
          needsReview    |-> \/ RatioLess(sortedMatches[1].confidence, Ratio(8, 10))
                             \/ heap[sortedMatches[1].rule].isUserDefined = FALSE]

\* what normalizeVendor(originalName) returns
normalizeVendor(heap, rules, originalName) ==
    Only({Only({Only({Vendor_result(h, originalName, cleanedOriginal, sortedMatches) :
                        sortedMatches \in {Vendor_sortMatches(h, matches)}}) :
                  matches \in {findMatchingRules(h, r, cleanedOriginal)}}) :
            h \in {heap}, r \in {rules},
            cleanedOriginal \in {Vendor_cleaned(originalName)}})

\* the first index of seq whose element satisfies Test, 0 when there is none
FindIndex(seq, Test(_)) ==
    LET found == {i \in 1..Len(seq) : Test(seq[i])}
    IN  IF found = {} THEN 0 ELSE CHOOSE i \in found : \A j \in found : i <= j

\* this.rules.find(test): the reference found, 0 for undefined
FindRule(rules, Test(_)) ==
    LET i == FindIndex(rules, Test) IN IF i = 0 THEN 0 ELSE rules[i]

\* the heap after updateRuleUsage(ruleId)
Vendor_updateRuleUsage(heap, rules, ruleId) ==
    LET rule == FindRule(rules, LAMBDA r : heap[r].id = ruleId)
    IN  IF rule = 0 THEN heap ELSE [heap EXCEPT ![rule].useCount = @ + 1]

\* the cache updateUserLearningCache leaves: a later rule replaces an
\* earlier one under the same key
updateUserLearningCache(heap, rules) ==
    LET userRules == SelectSeq(rules, LAMBDA r : heap[r].isUserDefined)
        Key(i)    == ToLowerCase(heap[userRules[i]].pattern)
        keys      == {Key(i) : i \in 1..Len(userRules)}
    IN  [key \in keys |->
            userRules[CHOOSE i \in 1..Len(userRules) :
                         /\ Key(i) = key
                         /\ \A j \in 1..Len(userRules) : Key(j) = key => j <= i]]

\* this.userLearningRules.set(key, rule)
MapSet(map, key, value) ==
    [k \in DOMAIN map \cup {key} |-> IF k = key THEN value ELSE map[k]]

Vendor_findExistingUserRule(heap, rules, cache, originalName, correctedName) ==
    LET lowerOriginal == ToLowerCase(originalName)
    IN  IF lowerOriginal \in DOMAIN cache THEN cache[lowerOriginal]
        ELSE FindRule(rules, LAMBDA r :
                 /\ heap[r].isUserDefined
                 /\ ToLowerCase(heap[r].normalizedName) = ToLowerCase(correctedName)
                 /\ Includes(ToLowerCase(heap[r].pattern), lowerOriginal))

\* exportRules(): the references of the user-defined rules
exportRules(heap, rules) == SelectSeq(rules, LAMBDA r : heap[r].isUserDefined)

\* this.rules after importRules(imported)
importRules(heap, rules, imported) ==
    SelectSeq(rules, LAMBDA r : ~heap[r].isUserDefined) \o imported

\* how many rules the constructor is handed at most
MaxExistingRules == 2

\* how many calls are made on one normalizer
MaxVendorCalls == 2

NoVendorResult ==
    [originalName |-> "", normalizedName |-> "", confidence |-> Ratio(0, 1),
     rule |-> 0, suggestions |-> <<>>, needsReview |-> FALSE]

VendorCall(op, originalName, correctedName, result, returned) ==
    [op |-> op, originalName |-> originalName, correctedName |-> correctedName,
     result |-> result, returned |-> returned]

\* new VendorNormalizer(existingRules)
VendorInit ==
    \E existingRules \in SeqsUpTo(VendorExistingRules, MaxExistingRules) :
        /\ \A i, j \in 1..Len(existingRules) : i # j => existingRules[i] # existingRules[j]
        /\ vnHeap = DEFAULT_NORMALIZATION_RULES \o existingRules
        /\ vnRules = [i \in 1..Len(vnHeap) |-> i]
        /\ vnCache = updateUserLearningCache(vnHeap, vnRules)
        /\ vnTrace = <<>>

VendorFrame == UNCHANGED <<csvVars, tzEastOfUtc, hashVars, dedupVars, catVars, laterVars>>

\* normalizeVendor(originalName)
NormalizeVendor ==
    /\ Len(vnTrace) < MaxVendorCalls
    /\ \E originalName \in VendorNames :
        \E result \in {normalizeVendor(vnHeap, vnRules, originalName)} :
              /\ vnHeap' = IF result.rule = 0 THEN vnHeap
                           ELSE Vendor_updateRuleUsage(vnHeap, vnRules, vnHeap[result.rule].id)
              /\ vnTrace' = Append(vnTrace,
                     VendorCall("normalizeVendor", originalName, "", result, result.rule))
    /\ UNCHANGED <<vnRules, vnCache>>
    /\ VendorFrame

\* the normalizer after learnFromCorrection({originalName, userCorrectedName}):
\* its rule objects, this.rules, the cache, and the reference of the rule the
\* call returns
Vendor_learnFromCorrection(heap, rules, cache, originalName, userCorrectedName) ==
    Only({Only({
        LET patterns == extractPatternsFromCorrection(cleanedOriginal, userCorrectedName)
            newRule  == [id             |-> "uuid-" \o NatToString(Len(heap) + 1),
                         pattern        |-> patterns.primary,
                         normalizedName |-> userCorrectedName,
                         confidence     |-> 90,
                         isRegex        |-> patterns.isRegex,
                         isUserDefined  |-> TRUE,
                         useCount       |-> 1]
            newRef   == Len(heap) + 1
        IN  IF existingRule # 0
            THEN [heap     |-> [heap EXCEPT ![existingRule].confidence = Min(95, @ + 10),
                                            ![existingRule].useCount = @ + 1],
                  rules    |-> rules,
                  cache    |-> cache,
                  returned |-> existingRule]
            ELSE [heap     |-> Append(heap, newRule),
                  rules    |-> Append(rules, newRef),
                  cache    |-> MapSet(cache, ToLowerCase(cleanedOriginal), newRef),
                  returned |-> newRef] :
          existingRule \in {Vendor_findExistingUserRule(heap, rules, cache,
                                cleanedOriginal, userCorrectedName)}}) :
      cleanedOriginal \in {Vendor_cleaned(originalName)}})

\* learnFromCorrection({originalName, userCorrectedName})
Vendor_LearnFromCorrection ==
    /\ Len(vnTrace) < MaxVendorCalls
    /\ \E originalName \in VendorNames, userCorrectedName \in CorrectedNames :
        \E learned \in {Vendor_learnFromCorrection(vnHeap, vnRules, vnCache,
                                                    originalName, userCorrectedName)} :
            /\ vnHeap' = learned.heap
            /\ vnRules' = learned.rules
            /\ vnCache' = learned.cache
            /\ vnTrace' = Append(vnTrace,
                   VendorCall("learnFromCorrection", originalName, userCorrectedName,
                              NoVendorResult, learned.returned))
    /\ VendorFrame

\* importRules(exportRules())
ImportExportedRules ==
    /\ Len(vnTrace) < MaxVendorCalls
    /\ vnRules' = importRules(vnHeap, vnRules, exportRules(vnHeap, vnRules))
    /\ vnCache' = updateUserLearningCache(vnHeap, vnRules')
    /\ vnTrace' = Append(vnTrace, VendorCall("importRules", "", "", NoVendorResult, 0))
    /\ UNCHANGED vnHeap
    /\ VendorFrame

(* C7: exporting the user-defined rules of a normalizer and importing them *)
(* back into the same normalizer changes no result: for every vendor text  *)
(* normalizeVendor returns the same normalized name, confidence, winning   *)
(* rule and suggestions before and after importRules(exportRules()),       *)
(* whatever mix of user-defined and other rules the normalizer was         *)
(* constructed with.                                                       *)
C7_VendorRoundTripKeepsResults ==
    \A originalName \in VendorNames :
        normalizeVendor(vnHeap, vnRules, originalName)
            = normalizeVendor(vnHeap,
                  importRules(vnHeap, vnRules, exportRules(vnHeap, vnRules)),
                  originalName)

\* the matches of a normalizeVendor result in their rank: the winner, then
\* the suggestions
Vendor_ranked(result) ==
    IF result.rule = 0 THEN <<>>
    ELSE <<[rule |-> result.rule, confidence |-> result.confidence]>>
            \o [i \in 1..Len(result.suggestions) |->
                  [rule       |-> result.suggestions[i].rule,
                   confidence |-> result.suggestions[i].confidence]]

\* C14: in a normalizeVendor result no rule that is not user-defined is
\* ranked ahead of a user-defined rule whose confidence is within 0.1 of its
\* own.
C14_UserRulesRankFirst ==
    \A c \in 1..Len(vnTrace) :
        vnTrace[c].op = "normalizeVendor" =>
            LET ranked == Vendor_ranked(vnTrace[c].result)
            IN  \A i, j \in 1..Len(ranked) :
                    (/\ i < j
                     /\ ~vnHeap[ranked[i].rule].isUserDefined
                     /\ vnHeap[ranked[j].rule].isUserDefined)
                        => ~WithinTenth(ranked[i].confidence, ranked[j].confidence)

\* C20: the winner of normalizeVendor has the highest score: no suggestion of
\* the result has a confidence above the confidence of the result.
C20_WinnerHasHighestScore ==
    \A c \in 1..Len(vnTrace) :
        vnTrace[c].op = "normalizeVendor" =>
            \A i \in 1..Len(vnTrace[c].result.suggestions) :
                ~RatioLess(vnTrace[c].result.confidence,
                           vnTrace[c].result.suggestions[i].confidence)

(* C8: once learnFromCorrection has been called for a vendor text, the     *)
(* next normalizeVendor of the same text returns the corrected name with a *)
(* confidence of at least 0.9; on the seed rules, after the correction of  *)
(* "SQ *COFFEE 123" to "Luna Coffee", normalizeVendor("SQ *COFFEE 123")    *)
(* returns "Luna Coffee" with a confidence of at least 0.9.                *)
C8_LearnedCorrectionIsReturned ==
    \A k \in 1..(Len(vnTrace) - 1) :
        (/\ vnTrace[k].op = "learnFromCorrection"
         /\ \A m \in 1..(k - 1) : ~(/\ vnTrace[m].op = "learnFromCorrection"
                                    /\ vnTrace[m].originalName = vnTrace[k].originalName)
         /\ vnTrace[k + 1].op = "normalizeVendor"
         /\ vnTrace[k + 1].originalName = vnTrace[k].originalName)
            => /\ vnTrace[k + 1].result.normalizedName = vnTrace[k].correctedName
               /\ ~RatioLess(vnTrace[k + 1].result.confidence, Ratio(9, 10))

-----------------------------------------------------------------------------
(* AutoCategorizer                                                         *)
(*                                                                         *)
(* A rule holds the fields the categorizer reads.  isActive is "true",     *)
(* "false" or "undefined"; isRegex and isUserDefined, only tested for      *)
(* truth, are booleans; a confidence of 0 stands for 0 and for undefined,  *)
(* which the code treats alike (rule.confidence || 0.8); useCount is       *)
(* always a number.                                                        *)

CategoryRule(id, name, category, patterns, confidence, isActive, isUserDefined, useCount) ==
    [id |-> id, name |-> name, category |-> category, patterns |-> patterns,
     isRegex |-> FALSE, isActive |-> isActive, confidence |-> confidence,
     useCount |-> useCount, isUserDefined |-> isUserDefined]

DEFAULT_RULES ==
    <<CategoryRule("grocery-1", "Grocery Stores", "Groceries",
          <<"walmart", "target", "safeway", "kroger", "whole foods",
            "trader joes", "costco", "sams club">>, 90, "true", FALSE, 0),
      CategoryRule("restaurant-1", "Restaurants", "Dining Out",
          <<"restaurant", "cafe", "coffee", "starbucks", "mcdonalds", "burger",
            "pizza", "chipotle">>, 85, "true", FALSE, 0),
      CategoryRule("gas-1", "Gas Stations", "Transportation",
          <<"shell", "chevron", "exxon", "bp", "mobil", "gas station", "fuel">>,
          90, "true", FALSE, 0),
      CategoryRule("transport-1", "Public Transportation", "Transportation",
          <<"uber", "lyft", "taxi", "metro", "bus fare", "parking", "toll">>,
          90, "true", FALSE, 0),
      CategoryRule("utilities-1", "Utilities", "Utilities",
          <<"electric", "gas bill", "water", "internet", "phone bill", "cable",
            "utility">>, 90, "true", FALSE, 0),
      CategoryRule("shopping-1", "Retail Shopping", "Shopping",
          <<"amazon", "ebay", "store", "mall", "retail", "purchase">>,
          70, "true", FALSE, 0),
      CategoryRule("healthcare-1", "Healthcare", "Healthcare",
          <<"hospital", "doctor", "pharmacy", "medical", "clinic", "dentist",
            "cvs", "walgreens">>, 85, "true", FALSE, 0),
      CategoryRule("entertainment-1", "Entertainment", "Entertainment",
          <<"netflix", "spotify", "movie", "theater", "cinema", "game",
            "entertainment">>, 80, "true", FALSE, 0),
      CategoryRule("salary-1", "Salary", "Income",
          <<"salary", "payroll", "wages", "direct deposit", "paycheck">>,
          90, "true", FALSE, 0)>>

COMMON_WORDS ==
    {"the", "and", "or", "but", "in", "on", "at", "to", "for", "of", "with",
     "by", "from", "up", "about", "into", "through", "during", "before",
     "after", "above", "below", "between", "among", "under", "over",
     "payment", "transaction", "purchase", "sale", "fee", "charge", "bill",
     "debit", "credit"}

\* .replace(/\d+/g, '#')
ReplaceNumbers(s) ==
    Concat([i \in 1..Len(s) |->
               IF IsDigit(Char(s, i))
               THEN IF i > 1 /\ IsDigit(Char(s, i - 1)) THEN "" ELSE "#"
               ELSE Char(s, i)])

\* .replace(/[^\w\s#]/g, ' ')
ReplaceSpecialCharacters(s) ==
    Concat([i \in 1..Len(s) |->
               LET c == Char(s, i)
               IN  IF IsWordChar(c) \/ IsWhitespace(c) \/ c = "#" THEN c ELSE " "])

Categorizer_normalizeDescription(description) ==
    Trim(CollapseWhitespace(ReplaceSpecialCharacters(ReplaceNumbers(
        ToLowerCase(description)))))

\* one row of editDistance's matrix from the row above it; row[i + 1] is
\* matrix[j][i], chars1 the characters of str1 and char2 the one of str2
RECURSIVE EditRow(_, _, _, _)
EditRow(above, chars1, char2, row) ==
    IF Len(row) > Len(chars1) THEN row
    ELSE LET i         == Len(row)
             indicator == IF chars1[i] = char2 THEN 0 ELSE 1
             cell      == Min(Min(row[i] + 1, above[i + 1] + 1), above[i] + indicator)
         IN  Only({EditRow(above, chars1, char2, next) : next \in {Append(row, cell)}})

RECURSIVE EditRows(_, _, _, _)
EditRows(above, chars1, chars2, j) ==
    IF j > Len(chars2) THEN above
    ELSE Only({EditRows(row, chars1, chars2, j + 1) :
                  row \in {EditRow(above, chars1, chars2[j], <<j>>)}})

editDistance(str1, str2) ==
    Only({EditRows([i \in 1..(Len(chars1) + 1) |-> i - 1], chars1, chars2, 1)[Len(chars1) + 1] :
            chars1 \in {Chars(str1)}, chars2 \in {Chars(str2)}})

Categorizer_calculateWordSimilarity(word1, word2) ==
    IF word1 = word2 THEN Ratio(1, 1)
    ELSE IF Len(word1) = 0 \/ Len(word2) = 0 THEN Ratio(0, 1)
    ELSE LET maxLength == Max(Len(word1), Len(word2))
             distance  == editDistance(word1, word2)
         IN  IF distance >= maxLength THEN Ratio(0, 1)
             ELSE Ratio(maxLength - distance, maxLength)

\* rule.confidence || 0.8
ConfidenceOrDefault(rule) == IF rule.confidence = 0 THEN 80 ELSE rule.confidence

\* what calculateMatchConfidence multiplies the confidence of a rule with
\* for one literal pattern: 1 when the description holds the pattern, the
\* share of the pattern's words that match a word of the description when
\* that is more than half, 0 otherwise
Categorizer_patternMatch(description, pattern) ==
    LET normalizedPattern == ToLowerCase(pattern)
        descriptionWords  == SplitWhitespace(description)
        patternWords      == SplitWhitespace(normalizedPattern)
        matchingWords     ==
            Cardinality({p \in 1..Len(patternWords) :
                \E d \in 1..Len(descriptionWords) :
                    RatioLess(Ratio(8, 10),
                              Categorizer_calculateWordSimilarity(
                                  descriptionWords[d], patternWords[p]))})
    IN  IF Includes(description, normalizedPattern) THEN Ratio(1, 1)
        ELSE IF 2 * matchingWords > Len(patternWords)
             THEN Ratio(matchingWords, Len(patternWords))
        ELSE Ratio(0, 1)

extractPatterns(description) ==
    LET words            == SelectSeq(SplitWhitespace(description), LAMBDA word : Len(word) > 2)
        significantWords == SelectSeq(words, LAMBDA word :
                                word \notin COMMON_WORDS /\ ~Includes(word, "#"))
        pairs            == [i \in 1..Min(Max(Len(significantWords) - 1, 0), 2) |->
                                significantWords[i] \o " " \o significantWords[i + 1]]
        patterns         == SliceSeq(significantWords, 0, 3) \o pairs
    IN  IF Len(patterns) > 0 THEN patterns ELSE <<description>>

\* the transaction descriptions the calls are made with
CatDescriptions == {"LUNA CAFE 42", "NETFLIX.COM"}

\* the categories the user corrects a transaction to
CorrectCategories == {"Coffee", "Groceries"}

\* the suggestions the user may reject; "" is no rejectedSuggestion
RejectedSuggestions == {"", "Dining Out"}

\* the lists a caller may hand over as userCategories
CategoryLists == {{}, {"Groceries", "Dining Out"}}

\* a rule as a store that keeps no isActive column hands it back
StoredRule ==
    CategoryRule("stored-1", "Luna", "Coffee", <<"luna">>, 90, "undefined", TRUE, 1)

\* the lists a caller may hand over as initialRules or userRules
UserRuleLists == {<<>>, <<StoredRule>>}

\* the rules a caller may hand to addRule
AddableRules ==
    {[name |-> "Streaming", category |-> "Entertainment", patterns |-> <<"netflix">>,
      isUserDefined |-> TRUE],
     [name |-> "Luna market", category |-> "Groceries", patterns |-> <<"luna">>,
      confidence |-> 85],
     [name |-> "Luna", category |-> "Coffee", patterns |-> <<"luna">>,
      confidence |-> 90, isUserDefined |-> TRUE, isActive |-> "undefined"],
     [name |-> "Luna diner", category |-> "Dining Out", patterns |-> <<"luna">>,
      confidence |-> 90, isUserDefined |-> TRUE],
     [name |-> "Streaming snacks", category |-> "Dining Out", patterns |-> <<"netflix">>,
      confidence |-> 20],
     [name |-> "Netflix nights", category |-> "Dining Out", patterns |-> <<"netflix">>,
      confidence |-> 5, isUserDefined |-> TRUE]}

\* the rule ids and the updates a caller may hand to updateRule
UpdatableRuleIds == {"restaurant-1", "stored-1"}

RuleUpdates == {[isActive |-> "false"]}

\* the normalized descriptions and the patterns the calls can meet
KnownDescriptions == {Categorizer_normalizeDescription(d) : d \in CatDescriptions}

KnownPatterns ==
    LET PatternsOf(rule) == {rule.patterns[i] : i \in 1..Len(rule.patterns)}
        learned == UNION {PatternsOf([patterns |-> extractPatterns(d)]) : d \in KnownDescriptions}
    IN  UNION {PatternsOf(DEFAULT_RULES[i]) : i \in 1..Len(DEFAULT_RULES)}
          \cup UNION {PatternsOf(rule) : rule \in AddableRules \cup {StoredRule}}
          \cup learned

\* Categorizer_patternMatch on them, computed once
PatternMatchTable ==
    LET table == [pair \in KnownDescriptions \X KnownPatterns |->
                     Categorizer_patternMatch(pair[1], pair[2])]
    IN  table @@ table

\* the confidence calculateMatchConfidence computes for one pattern
Categorizer_patternConfidence(description, rule, pattern) ==
    IF rule.isRegex
    THEN IF RegExpTest(pattern, description)
         THEN Hundredths(ConfidenceOrDefault(rule)) ELSE Ratio(0, 1)
    ELSE RatioTimes(Hundredths(ConfidenceOrDefault(rule)),
                    IF <<description, pattern>> \in DOMAIN PatternMatchTable
                    THEN PatternMatchTable[<<description, pattern>>]
                    ELSE Categorizer_patternMatch(description, pattern))

RECURSIVE RatioMax(_, _)
RatioMax(ratios, i) ==
    IF i > Len(ratios) THEN Ratio(0, 1)
    ELSE LET rest == RatioMax(ratios, i + 1)
         IN  IF RatioLess(rest, ratios[i]) THEN ratios[i] ELSE rest

calculateMatchConfidence(description, rule) ==
    Only({RatioMax(confidences, 1) :
            confidences \in {[p \in 1..Len(rule.patterns) |->
                Categorizer_patternConfidence(description, rule, rule.patterns[p])]}})

\* categorizeTransaction's loop without the test on the user's categories
Categorizer_findMatchesUnfiltered(heap, rules, categories, normalizedDescription) ==
    LET considered  == SelectSeq(rules, LAMBDA ref : heap[ref].isActive = "true")
        confidences == [i \in 1..Len(considered) |->
                           calculateMatchConfidence(normalizedDescription, heap[considered[i]])]
    IN  Only({LET kept == SelectSeq([i \in 1..Len(c) |-> i],
                                    LAMBDA i : RatioLess(Ratio(0, 1), c[i]))
              IN  [k \in 1..Len(kept) |->
                      [rule |-> considered[kept[k]], confidence |-> c[kept[k]]]] :
                c \in {confidences}})

\* the matches categorizeTransaction collects, in the order of this.rules; a
\* match holds the reference of its rule
Categorizer_findMatches(heap, rules, categories, normalizedDescription) ==
    LET Considered(ref) ==
            /\ heap[ref].isActive = "true"
            /\ ~(/\ ~heap[ref].isUserDefined
                 /\ categories # {}
                 /\ heap[ref].category \notin categories)
        considered  == SelectSeq(rules, Considered)
        confidences == [i \in 1..Len(considered) |->
                           calculateMatchConfidence(normalizedDescription, heap[considered[i]])]
    IN  Only({LET kept == SelectSeq([i \in 1..Len(c) |-> i],
                                    LAMBDA i : RatioLess(Ratio(0, 1), c[i]))
              IN  [k \in 1..Len(kept) |->
                      [rule |-> considered[kept[k]], confidence |-> c[kept[k]]]] :
                c \in {confidences}})

\* the comparator categorizeTransaction sorts the matches with
Categorizer_compareMatches(heap, a, b) ==
    IF heap[a.rule].isUserDefined /\ ~heap[b.rule].isUserDefined THEN -1
    ELSE IF ~heap[a.rule].isUserDefined /\ heap[b.rule].isUserDefined THEN 1
    ELSE IF WithinTenth(a.confidence, b.confidence)
         THEN heap[b.rule].useCount - heap[a.rule].useCount
    ELSE RatioCompare(b.confidence, a.confidence)

Categorizer_sortMatches(heap, matches) ==
    LET n     == Len(matches)
        cmp   == [p \in (1..n) \X (1..n) |->
                     Categorizer_compareMatches(heap, matches[p[1]], matches[p[2]])]
        order == ArraySort(n, cmp)
    IN  [i \in 1..n |-> matches[order[i]]]

\* what categorizeTransaction returns once the matches are sorted;
\* matchedRule is 0 and suggestedCategory "" when they are undefined
Categorizer_result(heap, description, matches) ==
    LET alternatives == SliceSeq(matches, 1, 4)
    IN  [originalDescription |-> description,
         confidence          |-> IF Len(matches) > 0 THEN matches[1].confidence
                                 ELSE Ratio(0, 1),
         alternatives        |-> [i \in 1..Len(alternatives) |->
                                     [category   |-> heap[alternatives[i].rule].category,
                                      confidence |-> alternatives[i].confidence,
                                      rule       |-> alternatives[i].rule]],
         suggestedCategory   |-> IF Len(matches) > 0 THEN heap[matches[1].rule].category
                                 ELSE "",
         matchedRule         |-> IF Len(matches) > 0 THEN matches[1].rule ELSE 0]

\* what categorizeTransaction(description) returns
categorizeTransaction(heap, rules, categories, description) ==
    Only({Only({Only({Categorizer_result(h, description, sorted) :
                        sorted \in {Categorizer_sortMatches(h, matches)}}) :
                  matches \in {Categorizer_findMatches(h, r, categories,
                                   Categorizer_normalizeDescription(description))}}) :
            h \in {heap}, r \in {rules}})

\* the heap after updateRuleUsage(ruleId)
Categorizer_updateRuleUsage(heap, rules, ruleId) ==
    LET rule == FindRule(rules, LAMBDA r : heap[r].id = ruleId)
    IN  IF rule = 0 THEN heap ELSE [heap EXCEPT ![rule].useCount = @ + 1]

\* rulePattern and pattern, one holding the other
PatternsOverlap(rulePatterns, patterns) ==
    \E i \in 1..Len(rulePatterns), j \in 1..Len(patterns) :
        \/ Includes(ToLowerCase(rulePatterns[i]), ToLowerCase(patterns[j]))
        \/ Includes(ToLowerCase(patterns[j]), ToLowerCase(rulePatterns[i]))

Categorizer_findExistingUserRule(heap, rules, patterns, category) ==
    FindRule(rules, LAMBDA r :
        /\ heap[r].isUserDefined
        /\ heap[r].category = category
        /\ PatternsOverlap(heap[r].patterns, patterns))

\* getUserDefinedRules(): the references of the user-defined rules
getUserDefinedRules(heap, rules) == SelectSeq(rules, LAMBDA r : heap[r].isUserDefined)

\* the objects loadUserRules(userRules) pushes: copies, isActive made a boolean
LoadedCopies(userRules) ==
    [i \in 1..Len(userRules) |->
        [userRules[i] EXCEPT !.isActive = IF @ = "false" THEN "false" ELSE "true"]]

\* {...base, ...over}
Spread(base, over) ==
    [field \in DOMAIN base \cup DOMAIN over |->
        IF field \in DOMAIN over THEN over[field] ELSE base[field]]

\* the object addRule(rule) makes; the fields rule leaves out that the code
\* gives no default stay undefined, which is FALSE for the two flags
addRule(rule, id) ==
    Spread([id |-> id, useCount |-> 0, isActive |-> "true", confidence |-> 80,
            isRegex |-> FALSE, isUserDefined |-> FALSE], rule)

\* how many calls are made on one categorizer
MaxCatCalls == 2

NoCatResult ==
    [originalDescription |-> "", confidence |-> Ratio(0, 1), alternatives |-> <<>>,
     suggestedCategory |-> "", matchedRule |-> 0]

CatCall(op, description, category, rejected, result) ==
    [op |-> op, description |-> description, category |-> category,
     rejected |-> rejected, result |-> result]

\* new AutoCategorizer(initialRules, userCategories)
CatInit ==
    /\ \E initialRules \in UserRuleLists :
          /\ acHeap = DEFAULT_RULES \o initialRules
          /\ acRules = [i \in 1..Len(acHeap) |-> i]
    /\ acCategories \in CategoryLists
    /\ acTrace = <<>>

CatFrame == UNCHANGED <<csvVars, tzEastOfUtc, hashVars, dedupVars, vendorVars, laterVars>>

\* categorizeTransaction(description)
CategorizeTransaction ==
    /\ Len(acTrace) < MaxCatCalls
    /\ \E description \in CatDescriptions :
        \E result \in {categorizeTransaction(acHeap, acRules, acCategories, description)} :
            /\ acHeap' = IF result.matchedRule = 0 THEN acHeap
                         ELSE Categorizer_updateRuleUsage(acHeap, acRules,
                                  acHeap[result.matchedRule].id)
            /\ acTrace' = Append(acTrace,
                   CatCall("categorizeTransaction", description, "", "", result))
    /\ UNCHANGED <<acRules, acCategories>>
    /\ CatFrame

\* the weakening with every match of the description counted, however weak
Categorizer_weakenAnyMatching(heap, rules, normalizedDescription, rejectedSuggestion) ==
    LET rejectedRule ==
            FindRule(rules, LAMBDA r :
                /\ heap[r].category = rejectedSuggestion
                /\ RatioLess(Ratio(0, 1),
                             calculateMatchConfidence(normalizedDescription, heap[r])))
    IN  IF rejectedSuggestion = "" \/ rejectedRule = 0 THEN heap
        ELSE IF heap[rejectedRule].confidence = 0 THEN heap
        ELSE IF heap[rejectedRule].isUserDefined
             THEN [heap EXCEPT ![rejectedRule].confidence = Max(10, @ - 30)]
        ELSE [heap EXCEPT ![rejectedRule].confidence = Max(30, @ - 10)]

\* the heap after the rule that made a rejected suggestion is weakened
Categorizer_weakenRejected(heap, rules, normalizedDescription, rejectedSuggestion) ==
    LET rejectedRule ==
            FindRule(rules, LAMBDA r :
                /\ heap[r].category = rejectedSuggestion
                /\ RatioLess(Ratio(5, 10),
                             calculateMatchConfidence(normalizedDescription, heap[r])))
    IN  IF rejectedSuggestion = "" \/ rejectedRule = 0 THEN heap
        ELSE IF heap[rejectedRule].confidence = 0 THEN heap
        ELSE IF heap[rejectedRule].isUserDefined
             THEN [heap EXCEPT ![rejectedRule].confidence = Max(10, @ - 30)]
        ELSE [heap EXCEPT ![rejectedRule].confidence = Max(30, @ - 10)]

\* the categorizer after learnFromCorrection(description, correctCategory,
\* rejectedSuggestion): its rule objects and this.rules
Categorizer_learnFromCorrection(heap, rules, categories, description, correctCategory, rejectedSuggestion) ==
    IF categories # {} /\ correctCategory \notin categories
    THEN [heap |-> heap, rules |-> rules]
    ELSE Only({Only({Only({
            LET newRule == addRule([name          |-> "Auto-learned: " \o patterns[1],
                                    category      |-> correctCategory,
                                    patterns      |-> patterns,
                                    confidence    |-> 80,
                                    isRegex       |-> FALSE,
                                    isUserDefined |-> TRUE],
                                   "uuid-" \o NatToString(Len(heap) + 1))
                heap1   == IF existingRule # 0
                           THEN [heap EXCEPT
                                    ![existingRule].confidence =
                                        Min(95, ConfidenceOrDefault(heap[existingRule]) + 10),
                                    ![existingRule].useCount = @ + 1]
                           ELSE Append(heap, newRule)
                rules1  == IF existingRule # 0 THEN rules
                           ELSE Append(rules, Len(heap) + 1)
            IN  Only({[heap  |-> Categorizer_weakenRejected(h, rules1, normalizedDescription,
                                                           rejectedSuggestion),
                       rules |-> rules1] : h \in {heap1}}) :
              existingRule \in {Categorizer_findExistingUserRule(heap, rules, patterns,
                                    correctCategory)}}) :
            patterns \in {extractPatterns(normalizedDescription)}}) :
          normalizedDescription \in {Categorizer_normalizeDescription(description)}})

\* learnFromCorrection(description, correctCategory, rejectedSuggestion)
Categorizer_LearnFromCorrection ==
    /\ Len(acTrace) < MaxCatCalls
    /\ \E description \in CatDescriptions, correctCategory \in CorrectCategories,
          rejectedSuggestion \in RejectedSuggestions :
        \E learned \in {Categorizer_learnFromCorrection(acHeap, acRules, acCategories,
                             description, correctCategory, rejectedSuggestion)} :
            /\ acTrace' = Append(acTrace,
                   CatCall("learnFromCorrection", description, correctCategory,
                           rejectedSuggestion, NoCatResult))
            /\ acHeap' = learned.heap
            /\ acRules' = learned.rules
    /\ UNCHANGED acCategories
    /\ CatFrame

\* addRule(rule)
AddRule ==
    /\ Len(acTrace) < MaxCatCalls
    /\ \E rule \in AddableRules :
          /\ acHeap' = Append(acHeap, addRule(rule, "uuid-" \o NatToString(Len(acHeap) + 1)))
          /\ acRules' = Append(acRules, Len(acHeap) + 1)
          /\ acTrace' = Append(acTrace, CatCall("addRule", "", rule.category, "", NoCatResult))
    /\ UNCHANGED acCategories
    /\ CatFrame

\* updateRule(ruleId, updates)
UpdateRule ==
    /\ Len(acTrace) < MaxCatCalls
    /\ \E ruleId \in UpdatableRuleIds, updates \in RuleUpdates :
          LET ruleIndex == FindIndex(acRules, LAMBDA r : acHeap[r].id = ruleId)
          IN  /\ acTrace' = Append(acTrace, CatCall("updateRule", ruleId, "", "", NoCatResult))
              /\ IF ruleIndex = 0 THEN UNCHANGED <<acHeap, acRules>>
                 ELSE /\ acHeap' = Append(acHeap, Spread(acHeap[acRules[ruleIndex]], updates))
                      /\ acRules' = [acRules EXCEPT ![ruleIndex] = Len(acHeap) + 1]
    /\ UNCHANGED acCategories
    /\ CatFrame

\* updateUserData(userCategories, userRules)
UpdateUserData ==
    /\ Len(acTrace) < MaxCatCalls
    /\ \E userCategories \in CategoryLists, userRules \in UserRuleLists :
          /\ acCategories' = userCategories
          /\ acHeap' = acHeap \o userRules
          /\ acRules' = SelectSeq(acRules, LAMBDA r : ~acHeap[r].isUserDefined)
                          \o [i \in 1..Len(userRules) |-> Len(acHeap) + i]
          /\ acTrace' = Append(acTrace, CatCall("updateUserData", "", "", "", NoCatResult))
    /\ CatFrame

\* the rule objects after loadUserRules(getUserDefinedRules())
Categorizer_reloadedHeap(heap, rules) ==
    LET userRules == getUserDefinedRules(heap, rules)
    IN  heap \o LoadedCopies([i \in 1..Len(userRules) |-> heap[userRules[i]]])

\* this.rules after loadUserRules(getUserDefinedRules())
Categorizer_reloadedRules(heap, rules) ==
    SelectSeq(rules, LAMBDA r : ~heap[r].isUserDefined)
        \o [i \in 1..Len(getUserDefinedRules(heap, rules)) |-> Len(heap) + i]

\* loadUserRules(getUserDefinedRules())
LoadUserRules ==
    /\ Len(acTrace) < MaxCatCalls
    /\ acHeap' = Categorizer_reloadedHeap(acHeap, acRules)
    /\ acRules' = Categorizer_reloadedRules(acHeap, acRules)
    /\ acTrace' = Append(acTrace, CatCall("loadUserRules", "", "", "", NoCatResult))
    /\ UNCHANGED acCategories
    /\ CatFrame

\* what a caller sees of a result: the rule objects left aside
Categorizer_view(result) ==
    [suggested    |-> result.matchedRule # 0,
     category     |-> result.suggestedCategory,
     confidence   |-> result.confidence,
     alternatives |-> [i \in 1..Len(result.alternatives) |->
                          <<result.alternatives[i].category,
                            result.alternatives[i].confidence>>]]

(* C6: saving the user-defined rules of a categorizer with                 *)
(* getUserDefinedRules and loading them back with loadUserRules changes no *)
(* result: in every state the categorizer can reach, categorizeTransaction *)
(* returns for every description the same suggested category, confidence   *)
(* and alternatives before and after the round trip.                       *)
C6_CategorizerRoundTripKeepsResults ==
    \A description \in CatDescriptions :
        Categorizer_view(categorizeTransaction(acHeap, acRules, acCategories, description))
            = Categorizer_view(categorizeTransaction(
                  Categorizer_reloadedHeap(acHeap, acRules),
                  Categorizer_reloadedRules(acHeap, acRules),
                  acCategories, description))

(* C9: with a non-empty list of user categories, whatever rules the        *)
(* categorizer holds (seed, loaded, added or learned), the category        *)
(* categorizeTransaction suggests, when it suggests one, and the category  *)
(* of every alternative it returns are in that list.                       *)
C9_SuggestionsWithinUserCategories ==
    acCategories # {} =>
        \A description \in CatDescriptions :
            LET result == categorizeTransaction(acHeap, acRules, acCategories, description)
            IN  /\ result.matchedRule # 0 => result.suggestedCategory \in acCategories
                /\ \A i \in 1..Len(result.alternatives) :
                       result.alternatives[i].category \in acCategories

(* C9, amended: with a non-empty list of user categories, a category       *)
(* outside the list is suggested, or returned as an alternative, only by a *)
(* rule marked isUserDefined; no rule without that mark (the seed rules    *)
(* among them) contributes a category outside the list.                    *)
C9_OnlyUserDefinedRulesEscapeFilter ==
    acCategories # {} =>
        \A description \in CatDescriptions :
            LET result == categorizeTransaction(acHeap, acRules, acCategories, description)
            IN  /\ result.matchedRule # 0 =>
                       \/ result.suggestedCategory \in acCategories
                       \/ acHeap[result.matchedRule].isUserDefined
                /\ \A i \in 1..Len(result.alternatives) :
                       \/ result.alternatives[i].category \in acCategories
                       \/ acHeap[result.alternatives[i].rule].isUserDefined

\* categorizeTransaction has just answered for a description that an active
\* seed rule matches, the category of that rule is not in the user's list,
\* and the answer does not come from it
C9_Witness ==
    /\ acCategories # {}
    /\ Len(acTrace) > 0
    /\ LET call == acTrace[Len(acTrace)]
       IN  /\ call.op = "categorizeTransaction"
           /\ \E ref \in 1..Len(acHeap) :
                  /\ \E i \in 1..Len(acRules) : acRules[i] = ref
                  /\ ~acHeap[ref].isUserDefined
                  /\ acHeap[ref].isActive = "true"
                  /\ acHeap[ref].category \notin acCategories
                  /\ RatioLess(Ratio(0, 1),
                         calculateMatchConfidence(
                             Categorizer_normalizeDescription(call.description), acHeap[ref]))
                  /\ call.result.matchedRule # ref
                  /\ \A k \in 1..Len(call.result.alternatives) :
                         call.result.alternatives[k].rule # ref

-----------------------------------------------------------------------------
(* ClipboardParser.parseText                                               *)

\* s.split(separator), separator one character: the pieces between the
\* places where s holds the separator
SplitOn(s, separator) ==
    LET cuts   == {i \in 1..Len(s) : Char(s, i) = separator}
        n      == Cardinality(cuts)
        Cut(k) == IF k = 0 THEN 0
                  ELSE IF k > n THEN Len(s) + 1
                  ELSE CHOOSE i \in cuts : Cardinality({j \in cuts : j < i}) = k - 1
    IN  [k \in 1..(n + 1) |-> Slice(s, Cut(k - 1) + 1, Cut(k) - 1)]

\* (s.match(/c/g) || []).length
CountChar(s, c) == Cardinality({i \in 1..Len(s) : Char(s, i) = c})

\* an isHTML that looks for the tag names without the opening bracket
isHTMLNoBracket(text) ==
    \E name \in {"table", "tr", "td", "th"} : Includes(ToLowerCase(text), name)

\* /<table|<tr|<td|<th/i.test(text)
isHTML(text) ==
    \E open \in {"<table", "<tr", "<td", "<th"} : Includes(ToLowerCase(text), open)

isCSV(text) ==
    LET lines      == SplitOn(text, "\n")
        firstLine  == lines[1]
        commaCount == CountChar(firstLine, ",")
        tabCount   == CountChar(firstLine, "\t")
    IN  IF Len(lines) < 2 THEN FALSE
        ELSE commaCount > tabCount /\ commaCount > 0

isTSV(text) == Includes(text, "\t")

\* headers[index] || `Column ${index + 1}`, index counted from 1 here
HeaderOrColumn(headers, index) ==
    IF index <= Len(headers) /\ headers[index] # "" THEN headers[index]
    ELSE "Column " \o NatToString(index)

\* the ParsedRow built from the values of one row: a later value of the same
\* key replaces an earlier one
RowData(headers, values) ==
    LET keys == {HeaderOrColumn(headers, i) : i \in 1..Len(values)}
        Last(key) == CHOOSE i \in 1..Len(values) :
                        /\ HeaderOrColumn(headers, i) = key
                        /\ \A j \in (i + 1)..Len(values) : HeaderOrColumn(headers, j) # key
    IN  [key \in keys |-> Trim(values[Last(key)])]

ParseResult(headers, rows, format) == [headers |-> headers, rows |-> rows, format |-> format]

\* the data rows of parseDelimitedText, from line i on
RECURSIVE DelimitedRows(_, _, _, _, _)
DelimitedRows(lines, delimiter, headers, i, rows) ==
    IF i > Len(lines) THEN rows
    ELSE LET values == parseCSVLine(lines[i], delimiter)
         IN  IF \E k \in 1..Len(values) : Trim(values[k]) # ""
             THEN DelimitedRows(lines, delimiter, headers, i + 1,
                                Append(rows, RowData(headers, values)))
             ELSE DelimitedRows(lines, delimiter, headers, i + 1, rows)

parseDelimitedText(text, delimiter, format) ==
    LET lines == SelectSeq(SplitOn(text, "\n"), LAMBDA line : Trim(line) # "")
    IN  IF Len(lines) = 0 THEN ParseResult(<<>>, <<>>, format)
        ELSE LET headers == parseCSVLine(lines[1], delimiter)
             IN  ParseResult(headers, DelimitedRows(lines, delimiter, headers, 2, <<>>),
                             format)

parseCSV(text) == parseDelimitedText(text, ",", "csv")

parseTSV(text) == parseDelimitedText(text, "\t", "tsv")

parseDelimited(text) ==
    LET firstLine      == SplitOn(text, "\n")[1]
        commaCount     == CountChar(firstLine, ",")
        tabCount       == CountChar(firstLine, "\t")
        semicolonCount == CountChar(firstLine, ";")
    IN  IF tabCount > commaCount /\ tabCount > semicolonCount
        THEN parseDelimitedText(text, "\t", "tsv")
        ELSE IF semicolonCount > commaCount
        THEN parseDelimitedText(text, ";", "csv")
        ELSE IF commaCount > 0
        THEN parseDelimitedText(text, ",", "csv")
        ELSE parseDelimitedText(text, " ", "unknown")

\* DOMParser.parseFromString(html, 'text/html'), for markup made of start
\* tags without attribute values and of text (no "/", "=", "!", "?", "&"):
\* the tokens of the HTML tokenizer. "<" and a letter open a start tag, its
\* name runs up to white space or ">", the tag ends at the next ">", and a
\* tag the text ends in is dropped.
IsLetter(c) == IsUpper(c) \/ IsLower(c)

RECURSIVE FirstAt(_, _, _)
FirstAt(s, i, stops) ==
    IF i > Len(s) THEN 0
    ELSE IF Char(s, i) \in stops THEN i
    ELSE FirstAt(s, i + 1, stops)

RECURSIVE HtmlTokens(_, _, _)
HtmlTokens(s, i, out) ==
    IF i > Len(s) THEN out
    ELSE IF Char(s, i) = "<" /\ IsLetter(Char(s, i + 1))
    THEN LET nameEnd == FirstAt(s, i + 1, {" ", "\t", "\n", "\f", ">"})
             close   == FirstAt(s, i + 1, {">"})
         IN  IF close = 0 THEN out
             ELSE HtmlTokens(s, close + 1,
                      Append(out, [tag |-> ToLowerCase(Slice(s, i + 1, nameEnd - 1))]))
    ELSE HtmlTokens(s, i + 1, Append(out, [text |-> Char(s, i)]))

IsTag(token, names) == "tag" \in DOMAIN token /\ token.tag \in names

\* doc.querySelector('table') finds an element: a table start tag was read
HasTableElement(html) ==
    \E k \in 1..Len(HtmlTokens(html, 1, <<>>)) :
        IsTag(HtmlTokens(html, 1, <<>>)[k], {"table"})

\* the tree the parser builds under the table, for markup with one table
\* start tag: the rows (tr, all in the implied tbody) and in each row the
\* textContent of its cells (td, th). Text and other elements outside a
\* cell are moved in front of the table; in a cell they are its content.
RECURSIVE TableRows(_, _, _, _)
TableRows(tokens, k, mode, rows) ==
    IF k > Len(tokens) THEN rows
    ELSE LET token   == tokens[k]
             lastRow == rows[Len(rows)]
         IN  IF mode = "before"
             THEN TableRows(tokens, k + 1,
                            IF IsTag(token, {"table"}) THEN "table" ELSE "before", rows)
             ELSE IF IsTag(token, {"tr"})
             THEN TableRows(tokens, k + 1, "row", Append(rows, <<>>))
             ELSE IF IsTag(token, {"td", "th"})
             THEN IF mode = "table"
                  THEN TableRows(tokens, k + 1, "cell", Append(rows, <<"">>))
                  ELSE TableRows(tokens, k + 1, "cell",
                           [rows EXCEPT ![Len(rows)] = Append(lastRow, "")])
             ELSE IF mode = "cell" /\ "text" \in DOMAIN token
             THEN TableRows(tokens, k + 1, "cell",
                      [rows EXCEPT ![Len(rows)][Len(lastRow)] = @ \o token.text])
             ELSE TableRows(tokens, k + 1, mode, rows)

\* the data rows of parseHTML: every tr that has cells
RECURSIVE HtmlRows(_, _, _, _)
HtmlRows(tableRows, headers, i, rows) ==
    IF i > Len(tableRows) THEN rows
    ELSE IF Len(tableRows[i]) > 0
         THEN HtmlRows(tableRows, headers, i + 1,
                       Append(rows, RowData(headers, tableRows[i])))
         ELSE HtmlRows(tableRows, headers, i + 1, rows)

NoTableFound == [error |-> "No table found in HTML content"]

\* parseHTML(html): NoTableFound stands for the Error thrown
parseHTML(html) ==
    IF ~HasTableElement(html) THEN NoTableFound
    ELSE LET tableRows == TableRows(HtmlTokens(html, 1, <<>>), 1, "before", <<>>)
             headers   == IF Len(tableRows) = 0 THEN <<>>
                          ELSE [i \in 1..Len(tableRows[1]) |-> Trim(tableRows[1][i])]
         IN  ParseResult(headers, HtmlRows(tableRows, headers, 1, <<>>), "html")

parseText(text) ==
    LET trimmedText == Trim(text)
    IN  IF isHTML(trimmedText) THEN parseHTML(trimmedText)
        ELSE IF isCSV(trimmedText) THEN parseCSV(trimmedText)
        ELSE IF isTSV(trimmedText) THEN parseTSV(trimmedText)
        ELSE parseDelimited(trimmedText)

\* the pieces pasted texts are made of
ParseTokens == {"<table>", "<TR>", "<td>", "<th", "td", "a", ",", ";", " ", "\t", "\n"}

\* bound: how many pieces a pasted text is made of
MaxTokens == 3

RECURSIVE TokenSeqs(_)
TokenSeqs(n) ==
    IF n = 0 THEN {<<>>}
    ELSE {Append(seq, token) : seq \in TokenSeqs(n - 1), token \in ParseTokens}

\* tables, delimited texts and an unfinished tag, as pasted
ParseExamples ==
    {"<table><tr><td>a<td>b<TR><td>c d<th x>e", "a,b\n1, 2\n\n,\n3", "a\tb\n1\t2",
     "x;y;z\n1;2;3;4", "<th<table>", "<div>a", "a <td>b"}

\* the pasted texts: at most one table start tag in each
ParseTexts ==
    {Concat(seq) : seq \in {t \in UNION {TokenSeqs(n) : n \in 0..MaxTokens} :
                               Cardinality({k \in 1..Len(t) : t[k] = "<table>"}) <= 1}}
      \cup ParseExamples

ParseInit ==
    /\ ptText \in ParseTexts
    /\ ptPhase = "input"
    /\ ptResult = <<>>

\* parseText(ptText)
ParseText ==
    /\ ptPhase = "input"
    /\ \E result \in {parseText(ptText)} :
          /\ ptResult' = result
          /\ ptPhase' = IF result = NoTableFound THEN "threw" ELSE "returned"
    /\ UNCHANGED ptText
    /\ UNCHANGED <<csvVars, tzEastOfUtc, hashVars, dedupVars, vendorVars, catVars,
                   mapperVars, twinVars, pageVars, restVars>>

\* the text holds HTML markup: a "<" and a letter open a tag
ContainsMarkup(text) ==
    \E i \in 1..(Len(text) - 1) : Char(text, i) = "<" /\ IsLetter(Char(text, i + 1))

-----------------------------------------------------------------------------
(* ColumnMapper: parseDate, parseAmount, handleProcessMapping              *)

HasDigitsAt(s, i, n) == Len(Slice(s, i, i + n - 1)) = n /\ AllDigits(Slice(s, i, i + n - 1))

\* dateStr.match(/(\d{4})-(\d{1,2})-(\d{1,2})/)
MatchesYearFirst(dateStr) ==
    \E i \in 1..Len(dateStr) :
        /\ HasDigitsAt(dateStr, i, 4) /\ Char(dateStr, i + 4) = "-"
        /\ \E a \in 1..2 :
              /\ HasDigitsAt(dateStr, i + 5, a) /\ Char(dateStr, i + 5 + a) = "-"
              /\ IsDigit(Char(dateStr, i + 6 + a))

\* the match of /(\d{1,2})S(\d{1,2})S(\d{4})/ that starts at i, S the
\* separator: the groups, or <<>> when there is none; a group takes two
\* digits before it is tried with one
MatchYearLastAt(dateStr, separator, i) ==
    LET Fits(a, b) ==
            /\ Char(dateStr, i + a) = separator
            /\ HasDigitsAt(dateStr, i + a + 1, b)
            /\ Char(dateStr, i + a + 1 + b) = separator
            /\ HasDigitsAt(dateStr, i + a + b + 2, 4)
        Group(a, b) ==
            [month |-> Slice(dateStr, i, i + a - 1),
             day   |-> Slice(dateStr, i + a + 1, i + a + b),
             year  |-> Slice(dateStr, i + a + b + 2, i + a + b + 5)]
        pairs == <<<<2, 2>>, <<2, 1>>, <<1, 2>>, <<1, 1>>>>
        fits  == SelectSeq(pairs, LAMBDA p : HasDigitsAt(dateStr, i, p[1]) /\ Fits(p[1], p[2]))
    IN  IF Len(fits) = 0 THEN <<>> ELSE <<Group(fits[1][1], fits[1][2])>>

\* dateStr.match(format): the leftmost match
RECURSIVE MatchYearLast(_, _, _)
MatchYearLast(dateStr, separator, i) ==
    IF i > Len(dateStr) THEN <<>>
    ELSE IF MatchYearLastAt(dateStr, separator, i) # <<>>
         THEN MatchYearLastAt(dateStr, separator, i)
         ELSE MatchYearLast(dateStr, separator, i + 1)

\* an Invalid Date, and the local midnight of a day
InvalidDate == [valid |-> FALSE, y |-> 0, m |-> 0, d |-> 0]

LocalDay(y, m, d) == [valid |-> TRUE, y |-> y, m |-> m, d |-> d]

\* the days a host may read out of a string that is no date-time string
LooseDays == {LocalDay(2001, 1, 15), LocalDay(2024, 1, 15)}

\* new Date(dateStr) for a string none of the four patterns matches: what the
\* host's own date reading may give. YYYY/M/D is read as the local midnight
\* of that day and a string without a digit is an Invalid Date; what else is
\* read as a date, and as which one, is up to the host.
DateReadings(dateStr) ==
    LET parts == SplitOn(dateStr, "/")
    IN  IF /\ Len(parts) = 3
           /\ Len(parts[1]) = 4 /\ AllDigits(parts[1])
           /\ Len(parts[2]) \in 1..2 /\ AllDigits(parts[2])
           /\ Len(parts[3]) \in 1..2 /\ AllDigits(parts[3])
           /\ ParseNat(parts[2]) \in 1..12
           /\ ParseNat(parts[3]) \in 1..DaysInMonth(ParseNat(parts[1]), ParseNat(parts[2]))
        THEN {LocalDay(ParseNat(parts[1]), ParseNat(parts[2]), ParseNat(parts[3]))}
        ELSE IF \A i \in 1..Len(dateStr) : ~IsDigit(Char(dateStr, i))
        THEN {InvalidDate}
        ELSE {InvalidDate} \cup LooseDays

\* the rewriting to year-month-day, month and day padded to two digits
RewriteDate(match) ==
    match.year \o "-" \o PadZero(match.month, 2) \o "-" \o PadZero(match.day, 2)

\* parseDate(dateStr); east: the host's local time is ahead of UTC; parsed:
\* what new Date(dateStr) gives
parseDate(dateStr, east, parsed) ==
    IF dateStr = "" THEN ""
    ELSE IF MatchesYearFirst(dateStr) THEN dateStr
    ELSE IF MatchYearLast(dateStr, "/", 1) # <<>>
    THEN RewriteDate(MatchYearLast(dateStr, "/", 1)[1])
    ELSE IF MatchYearLast(dateStr, "-", 1) # <<>>
    THEN RewriteDate(MatchYearLast(dateStr, "-", 1)[1])
    ELSE IF MatchYearLast(dateStr, ".", 1) # <<>>
    THEN RewriteDate(MatchYearLast(dateStr, ".", 1)[1])
    ELSE IF parsed.valid THEN ToIsoDay(parsed, east)
    ELSE dateStr

\* the digits s has from i on
RECURSIVE DigitsFrom(_, _)
DigitsFrom(s, i) ==
    IF IsDigit(Char(s, i)) THEN Char(s, i) \o DigitsFrom(s, i + 1) ELSE ""

\* parseFloat(s) for a string without white space, exponent or "Infinity":
\* the longest prefix that is a signed decimal, NaN when there is none.
\* Fractions have at most three digits in the model.
parseFloat(s) ==
    LET sign     == IF Char(s, 1) \in {"-", "+"} THEN 1 ELSE 0
        whole    == DigitsFrom(s, sign + 1)
        dot      == sign + Len(whole) + 1
        fraction == IF Char(s, dot) = "." THEN DigitsFrom(s, dot + 1) ELSE ""
        abs      == 1000 * ParseNat(whole) + ParseNat(Slice(fraction \o "000", 1, 3))
    IN  IF whole = "" /\ fraction = "" THEN NaN
        ELSE Num(IF Char(s, 1) = "-" THEN -abs ELSE abs)

\* replace(/[chars]/g, '')
RemoveChars(s, chars) ==
    Concat([i \in 1..Len(s) |-> IF Char(s, i) \in chars THEN "" ELSE Char(s, i)])

CurrencyAndSpacing == {"$", "£", "€", "¥", "₹", ",", " ", "\t", "\n", "\r", "\f"}

\* a parseAmount that drops the sign: the magnitude of the number
parseAmountMagnitude(amountStr) ==
    LET number == parseFloat(RemoveChars(RemoveChars(amountStr, CurrencyAndSpacing),
                                         {"(", ")"}))
    IN  IF amountStr = "" \/ number.isNaN THEN Num(0)
        ELSE Num(IF number.thousandths < 0 THEN -number.thousandths
                 ELSE number.thousandths)

parseAmount(amountStr) ==
    LET cleaned    == RemoveChars(amountStr, CurrencyAndSpacing)
        isNegative == Char(cleaned, 1) = "(" /\ Char(cleaned, Len(cleaned)) = ")"
        numberStr  == RemoveChars(cleaned, {"(", ")"})
        number     == parseFloat(numberStr)
    IN  IF amountStr = "" THEN Num(0)
        ELSE IF number.isNaN THEN Num(0)
        ELSE IF isNegative THEN Num(-number.thousandths) ELSE number

\* row[header]: "" stands for undefined
Cell(row, header) == IF header \in DOMAIN row THEN row[header] ELSE ""

\* mapping[fieldId]: "" stands for undefined
MappedHeader(mapping, fieldId) == IF fieldId \in DOMAIN mapping THEN mapping[fieldId] ELSE ""

\* the MappedTransaction handleProcessMapping makes of one row
MapRow(mapping, row, east, parsed) ==
    LET Text(fieldId) == IF MappedHeader(mapping, fieldId) # ""
                         THEN Cell(row, MappedHeader(mapping, fieldId)) ELSE ""
    IN  [date        |-> parseDate(Text("date"), east, parsed),
         description |-> Text("description"),
         amount      |-> IF MappedHeader(mapping, "amount") # ""
                         THEN parseAmount(Text("amount")) ELSE Num(0),
         account     |-> Text("account"),
         category    |-> Text("category"),
         reference   |-> Text("reference"),
         originalRow |-> row]

\* the mappedData of handleProcessMapping
\* parsed[i]: what new Date gives of the date text of row i
handleProcessMapping(mapping, sampleRows, east, parsed) ==
    [i \in 1..Len(sampleRows) |-> MapRow(mapping, sampleRows[i], east, parsed[i])]

\* row[mapping.date], the text parseDate is given
DateTextOf(mapping, row) ==
    IF MappedHeader(mapping, "date") # "" THEN Cell(row, MappedHeader(mapping, "date")) ELSE ""

\* row[mapping.amount], the text parseAmount is given
AmountTextOf(mapping, row) ==
    IF MappedHeader(mapping, "amount") # "" THEN Cell(row, MappedHeader(mapping, "amount")) ELSE ""

\* the date texts of the rows: three numbers, separated, in any order, with
\* or without text around them
DateNumbers == {"2024", "1", "01", "15"}

DateSeparators == {"/", "-", "."}

DateTexts ==
    {before \o a \o s1 \o b \o s2 \o c \o after :
        before \in {"", "x"}, a \in DateNumbers, s1 \in DateSeparators,
        b \in DateNumbers, s2 \in DateSeparators, c \in DateNumbers,
        after \in {"", "T10:00"}}
      \cup {"", "abc", "Jan 15", "20240115", "2024-02-30", "13/45/2024", "1/5/24"}

\* what new Date may give of the date texts
AllDateReadings == UNION {DateReadings(dateStr) : dateStr \in DateTexts}

\* bound: the longest amount text drawn from AmountAlphabet
MaxAmountLen == 3

AmountAlphabet == {"5", ".", "-", "(", ")", "$", "x"}

AmountTexts ==
    StringsUpTo(AmountAlphabet, MaxAmountLen)
      \cup {"(123.45)", "$1,234.50", "- 5", "1 000", "£12.5", "-0", "(0)", "(-5)",
            "-(5)", "($5)"}

ParsedRowOf(date, description, amount) ==
    [Date |-> date, Description |-> description, Amount |-> amount]

\* the rows batches of several rows are made of
BatchRows ==
    {ParsedRowOf("01/15/2024", "WALMART", "(123.45)"),
     ParsedRowOf("2024-01-16", "STARBUCKS #2291", "-5.5"),
     ParsedRowOf("abc", "", "x"),
     [Date |-> "1.5.2024", Debit |-> "$5"]}

\* bound: the rows of a batch
MaxRows == 2

\* the mappings the caller confirms: the three required fields are mapped
ColumnMappings ==
    {[date |-> "Date", description |-> "Description", amount |-> "Amount"],
     [date |-> "Date", description |-> "Description", amount |-> "Debit",
      reference |-> "Amount"]}

\* ColumnMapper({headers, sampleRows, ...}) with the mapping confirmed
MapperInit ==
    /\ cmRows \in {<<ParsedRowOf(date, "WALMART", "5")>> : date \in DateTexts}
                    \cup {<<ParsedRowOf("2024-01-15", "WALMART", amount)>> :
                            amount \in AmountTexts}
                    \cup SeqsUpTo(BatchRows, MaxRows)
    /\ cmMapping \in ColumnMappings
    /\ cmMapped = <<>>
    /\ cmPhase = "mapping"

\* handleProcessMapping()
HandleProcessMapping ==
    /\ cmPhase = "mapping"
    /\ \E parsed \in [1..Len(cmRows) -> AllDateReadings] :
          /\ \A i \in 1..Len(cmRows) :
                parsed[i] \in DateReadings(DateTextOf(cmMapping, cmRows[i]))
          /\ cmMapped' = handleProcessMapping(cmMapping, cmRows, tzEastOfUtc, parsed)
    /\ cmPhase' = "mapped"
    /\ UNCHANGED <<cmRows, cmMapping>>
    /\ UNCHANGED <<csvVars, tzEastOfUtc, hashVars, dedupVars, vendorVars, catVars,
                   parseVars, twinVars, pageVars, restVars>>

\* dateStr matches one of the four formats of parseDate
MatchesDateFormat(dateStr) ==
    \/ MatchesYearFirst(dateStr)
    \/ \E separator \in DateSeparators : MatchYearLast(dateStr, separator, 1) # <<>>

\* C12: the date handleProcessMapping gives a row is of the form YYYY-MM-DD
\* when the row's date text matches one of the formats of parseDate or is
\* read by the host as a date, and is the row's date text when neither is so.
C12_RecognizedDatesAreIso ==
    cmPhase = "mapped" =>
        \A k \in 1..Len(cmMapped) :
            LET dateStr == DateTextOf(cmMapping, cmRows[k])
            IN  /\ MatchesDateFormat(dateStr) => IsIsoDate(cmMapped[k].date)
                /\ ~IsIsoDate(cmMapped[k].date) => cmMapped[k].date = dateStr

\* the mapped amounts that are numbers below zero
NegativeAmounts ==
    {k \in 1..Len(cmMapped) :
        ~cmMapped[k].amount.isNaN /\ cmMapped[k].amount.thousandths < 0}

CleanedAmount(amountStr) == RemoveChars(amountStr, CurrencyAndSpacing)

\* the cleaned text is wrapped in parentheses
IsParenthesized(cleaned) == Char(cleaned, 1) = "(" /\ Char(cleaned, Len(cleaned)) = ")"

\* the cleaned text, parentheses dropped, starts with a minus sign
HasLeadingMinus(cleaned) == Char(RemoveChars(cleaned, {"(", ")"}), 1) = "-"

-----------------------------------------------------------------------------
(* Two VendorNormalizer instances                                          *)

\* the rule objects a normalizer sees through its this.rules
Vendor_view(heap, rules) == [i \in 1..Len(rules) |-> heap[rules[i]]]

\* new VendorNormalizer() beside the normalizer of VendorInit: this.rules is
\* a new array, [...DEFAULT_NORMALIZATION_RULES], of the objects the
\* module-level array holds, the ones the first normalizer's array holds too
TwinInit ==
    /\ vnOtherRules = [i \in 1..Len(DEFAULT_NORMALIZATION_RULES) |-> i]
    /\ vnOtherSeen = DEFAULT_NORMALIZATION_RULES

\* C18: the calls made on one normalizer change nothing of what the other
\* one sees: its rules, their use counts and confidences, and what it
\* returns for a vendor text, are as they were when it was constructed.
C18_InstancesAreIsolated ==
    vnOtherRules # <<>> =>
        /\ Vendor_view(vnHeap, vnOtherRules) = vnOtherSeen
        /\ \A originalName \in VendorNames :
              normalizeVendor(vnHeap, vnOtherRules, originalName)
                  = normalizeVendor(vnOtherSeen, vnOtherRules, originalName)

-----------------------------------------------------------------------------
(* ImportPage and TransactionReviewTable                                   *)
(*                                                                         *)
(* The amount of a transaction on the page is a number of thousandths; a   *)
(* confidence is a ratio.                                                  *)

\* Object.keys(row) of a row parseDelimitedText built under headers: the
\* keys in the order they were first set
ObjectKeys(headers, row) ==
    LET n      == Len(headers) + Cardinality(DOMAIN row)
        key(i) == HeaderOrColumn(headers, i)
        first  == {i \in 1..n : key(i) \in DOMAIN row /\ \A j \in 1..(i - 1) : key(j) # key(i)}
        RECURSIVE Ordered(_, _)
        Ordered(i, out) == IF i > n THEN out
                           ELSE Ordered(i + 1, IF i \in first THEN Append(out, key(i)) ELSE out)
    IN  Ordered(1, <<>>)

\* Object.keys(row).filter(key => words.some(word => key.toLowerCase().includes(word)))
KeysHolding(headers, row, words) ==
    SelectSeq(ObjectKeys(headers, row),
              LAMBDA key : \E word \in words : Includes(ToLowerCase(key), word))

\* new Date(value) is a valid date; of the texts of the rows, the ISO days
\* are, the empty text and the texts without a digit are not
IsValidDate(value) ==
    /\ IsIsoDate(value)
    /\ ParseNat(Slice(value, 6, 7)) \in 1..12
    /\ ParseNat(Slice(value, 9, 10)) \in
          1..DaysInMonth(ParseNat(Slice(value, 1, 4)), ParseNat(Slice(value, 6, 7)))

\* extractDateFromRow(row): the first date read from a column whose name
\* holds "date" or "time"; "" for null. An ISO day is read as the midnight
\* of UTC and comes back as it is.
extractDateFromRow(headers, row) ==
    LET dateKeys == KeysHolding(headers, row, {"date", "time"})
        found    == SelectSeq(dateKeys, LAMBDA key : IsValidDate(Trim(row[key])))
    IN  IF Len(found) = 0 THEN "" ELSE Trim(row[found[1]])

\* an extractVendorFromRow that passes over the description column
extractVendorFromRowByName(headers, row) ==
    LET vendorKeys == KeysHolding(headers, row, {"merchant", "vendor", "payee", "name"})
        found      == SelectSeq(vendorKeys, LAMBDA key : Trim(row[key]) # "")
    IN  IF Len(found) = 0 THEN "" ELSE Trim(row[found[1]])

\* extractVendorFromRow(row); "" for null
extractVendorFromRow(headers, row) ==
    LET vendorKeys == KeysHolding(headers, row,
                                  {"description", "merchant", "vendor", "payee", "name"})
        found      == SelectSeq(vendorKeys, LAMBDA key : Trim(row[key]) # "")
    IN  IF Len(found) = 0 THEN "" ELSE Trim(row[found[1]])

\* extractAmountFromRow(row)
extractAmountFromRow(headers, row) ==
    LET amountKeys == KeysHolding(headers, row, {"amount", "debit", "credit", "total"})
        found      == SelectSeq(amountKeys, LAMBDA key : ~parseFloat(row[key]).isNaN)
        numeric    == SelectSeq(ObjectKeys(headers, row),
                                LAMBDA key : /\ ~parseFloat(row[key]).isNaN
                                             /\ parseFloat(row[key]).thousandths # 0)
    IN  IF Len(found) > 0 THEN row[found[1]]
        ELSE IF Len(numeric) > 0 THEN row[numeric[1]]
        ELSE "0"

\* today, new Date().toISOString().split('T')[0]
Today == "2024-03-01"

\* Object.values(row).join(separator)
JoinValues(headers, row, separator) ==
    LET keys == ObjectKeys(headers, row)
    IN  Concat([i \in 1..Len(keys) |->
                  IF i = 1 THEN row[keys[i]] ELSE separator \o row[keys[i]]])

\* a ParsedTransaction; category "" stands for undefined
ParsedTransaction(id, date, vendor, amount, description, issues, category) ==
    [id |-> id, date |-> date, vendor |-> vendor, originalVendor |-> vendor,
     amount |-> amount, description |-> description, confidence |-> Ratio(8, 10),
     issues |-> issues, category |-> category]

\* the ParsedTransaction processUploadedData makes of row index of a
\* structured result; crypto.randomUUID() gives each row an id of its own
ExtractedTransaction(headers, row, index) ==
    LET extractedDate   == extractDateFromRow(headers, row)
        extractedVendor == extractVendorFromRow(headers, row)
        extractedAmount == parseFloat(extractAmountFromRow(headers, row))
    IN  ParsedTransaction(
            "uuid-" \o NatToString(index),
            IF extractedDate # "" THEN extractedDate ELSE Today,
            IF extractedVendor # "" THEN extractedVendor ELSE "Unknown Vendor",
            IF extractedAmount.isNaN THEN 0 ELSE Abs(extractedAmount.thousandths),
            JoinValues(headers, row, " - "),
            IF extractedDate # "" THEN <<>> ELSE <<"Could not parse date from row">>,
            "")

\* allTransactions of processUploadedData([result])
ExtractedTransactions(result) ==
    IF result.type = "structured"
    THEN [i \in 1..Len(result.structured.rows) |->
             ExtractedTransaction(result.structured.headers, result.structured.rows[i], i)]
    ELSE result.aiParsed


\* the categories initializeServices sets when the user has none stored
DefaultUserCategories ==
    <<"Groceries", "Dining Out", "Transportation", "Utilities", "Shopping",
      "Healthcare", "Entertainment", "Income", "Rent", "Insurance">>

\* userCategories.find(...): the first user category that is the AI category
\* or holds it or is held by it, letter case aside; "" for undefined
MatchedCategory(userCategories, aiExtractedCategory) ==
    LET found == SelectSeq(userCategories,
                     LAMBDA userCat :
                         \/ userCat = aiExtractedCategory
                         \/ Includes(ToLowerCase(aiExtractedCategory), ToLowerCase(userCat))
                         \/ Includes(ToLowerCase(userCat), ToLowerCase(aiExtractedCategory)))
    IN  IF Len(found) = 0 THEN "" ELSE found[1]

\* a validation that reports missing_vendor when no rule matched the vendor
ValidationErrorsOnFallback(transaction, vendorNormalization) ==
    (IF vendorNormalization.rule = 0 THEN <<"missing_vendor">> ELSE <<>>)
    \o (IF transaction.amount <= 0 THEN <<"invalid_amount">> ELSE <<>>)
    \o (IF ~IsValidDate(transaction.date) THEN <<"invalid_date">> ELSE <<>>)

\* the validationErrors normalizeAndCategorize gives a transaction
ValidationErrors(transaction, vendorNormalization) ==
    (IF vendorNormalization.normalizedName \in {"", "Unknown Vendor"}
     THEN <<"missing_vendor">> ELSE <<>>)
    \o (IF transaction.amount <= 0 THEN <<"invalid_amount">> ELSE <<>>)
    \o (IF ~IsValidDate(transaction.date) THEN <<"invalid_date">> ELSE <<>>)

\* the ReviewableTransaction of one transaction; isEdited FALSE and notes ""
\* stand for undefined
Reviewable(transaction, vendorNormalization, finalCategory, finalConfidence, reviewable) ==
    [id                  |-> transaction.id,
     date                |-> transaction.date,
     vendor              |-> vendorNormalization.normalizedName,
     originalVendor      |-> transaction.originalVendor,
     amount              |-> transaction.amount,
     description         |-> transaction.description,
     confidence          |-> transaction.confidence,
     issues              |-> transaction.issues,
     category            |-> transaction.category,
     vendorNormalization |-> vendorNormalization,
     suggestedCategory   |-> finalCategory,
     categoryConfidence  |-> finalConfidence,
     isDuplicate         |-> \E i \in 1..Len(reviewable) :
                                 /\ reviewable[i].date = transaction.date
                                 /\ reviewable[i].amount = transaction.amount
                                 /\ reviewable[i].vendor = vendorNormalization.normalizedName,
     validationErrors    |-> ValidationErrors(transaction, vendorNormalization),
     isEdited            |-> FALSE,
     notes               |-> ""]

\* one pass of the loop of normalizeAndCategorize: the rule heaps of the two
\* engines and the reviewable transactions after transaction is handled
NormalizeStep(transaction, userCategories, vRules, cRules, state) ==
    Only({Only({
        LET aiExtractedCategory == transaction.category
            matchedCategory     == MatchedCategory(userCategories, aiExtractedCategory)
            finalCategory       == IF aiExtractedCategory = ""
                                   THEN categorization.suggestedCategory
                                   ELSE IF matchedCategory # "" THEN matchedCategory
                                   ELSE aiExtractedCategory
            finalConfidence     == IF aiExtractedCategory = "" THEN categorization.confidence
                                   ELSE IF matchedCategory # "" THEN Ratio(95, 100)
                                   ELSE Ratio(85, 100)
        IN  [vendor     |-> IF vendorNormalization.rule = 0 THEN state.vendor
                            ELSE Vendor_updateRuleUsage(state.vendor, vRules,
                                     state.vendor[vendorNormalization.rule].id),
             category   |-> IF aiExtractedCategory # "" \/ categorization.matchedRule = 0
                            THEN state.category
                            ELSE Categorizer_updateRuleUsage(state.category, cRules,
                                     state.category[categorization.matchedRule].id),
             reviewable |-> Append(state.reviewable,
                                   Reviewable(transaction, vendorNormalization,
                                              finalCategory, finalConfidence,
                                              state.reviewable))] :
          categorization \in {categorizeTransaction(state.category, cRules, {},
                                  vendorNormalization.normalizedName)}}) :
      vendorNormalization \in {normalizeVendor(state.vendor, vRules, transaction.vendor)}})

\* the loop of normalizeAndCategorize from transaction k on
RECURSIVE NormalizeLoop(_, _, _, _, _, _)
NormalizeLoop(transactions, k, userCategories, vRules, cRules, state) ==
    IF k > Len(transactions) THEN state
    ELSE Only({NormalizeLoop(transactions, k + 1, userCategories, vRules, cRules, next) :
                 next \in {NormalizeStep(transactions[k], userCategories, vRules, cRules,
                                          state)}})


\* the statistics the review table shows
Stats(transactions) ==
    LET Count(Test(_)) == Cardinality({i \in 1..Len(transactions) : Test(transactions[i])})
        total  == Len(transactions)
        issues == Count(LAMBDA tx : Len(tx.validationErrors) > 0 \/ Len(tx.issues) > 0)
    IN  [total       |-> total,
         issues      |-> issues,
         duplicates  |-> Count(LAMBDA tx : tx.isDuplicate),
         needsVendor |-> Count(LAMBDA tx : \/ tx.vendor \in {"", "Unknown Vendor"}
                                           \/ tx.vendorNormalization.needsReview),
         edited      |-> Count(LAMBDA tx : tx.isEdited),
         ready       |-> total - issues]

\* a Save button that holds back the transactions with issues as well
SaveableWithoutIssues(transactions) ==
    SelectSeq(transactions,
              LAMBDA tx : Len(tx.validationErrors) = 0 /\ Len(tx.issues) = 0)

\* transactions.filter(tx => tx.validationErrors.length === 0), what the Save
\* button hands to onSaveAll
Saveable(transactions) ==
    SelectSeq(transactions, LAMBDA tx : Len(tx.validationErrors) = 0)

\* prev.map(tx => ids.includes(tx.id) ? {...tx, ...updates} : tx), updates a
\* record of some of the fields
ApplyUpdates(transactions, ids, updates) ==
    [i \in 1..Len(transactions) |->
        IF transactions[i].id \in ids
        THEN [field \in DOMAIN transactions[i] |->
                 IF field \in DOMAIN updates THEN updates[field]
                 ELSE transactions[i][field]]
        ELSE transactions[i]]

\* a bulk category update that leaves isEdited as it is
BulkCategoryUnmarked(category) == [suggestedCategory |-> category]

\* the updates handleBulkCategoryUpdate hands to onBulkUpdate
BulkCategoryUpdates(category) == [suggestedCategory |-> category, isEdited |-> TRUE]

\* the updates the onUpdate of a row hands to onTransactionUpdate for
\* handleFieldUpdate(field, value)
FieldUpdates(field, value) == [name \in {field, "isEdited"} |->
                                  IF name = "isEdited" THEN TRUE ELSE value]

\* the ParsedTransactions an AI parse may hand over
AiTransactions ==
    {[date |-> "2024-01-15", vendor |-> "LUNA", amount |-> 5000, issues |-> <<>>,
      category |-> ""],
     [date |-> "2024-01-15", vendor |-> "Unknown Vendor", amount |-> 5000,
      issues |-> <<"Vendor unclear">>, category |-> ""],
     [date |-> "n/a", vendor |-> "STARBUCKS #2291", amount |-> 0, issues |-> <<>>,
      category |-> "Dining"],
     [date |-> "", vendor |-> "", amount |-> -5000, issues |-> <<>>, category |-> "Pets"]}

\* bound: the transactions of an AI parse
MaxParsed == 1

\* the CSV of the end-to-end scenario
ScenarioCsv ==
    "Date,Description,Amount\n2024-01-15,WALMART SUPERCENTER,-125.43\n"
    \o "2024-01-15,WALMART SUPERCENTER,-125.43\n2024-01-16,STARBUCKS #2291,-4.85"

\* the texts of structured uploads
UploadedTexts ==
    {ScenarioCsv,
     "Post Date,Payee,Debit\nn/a,LUNA,5\n2024-01-15,,x\n2024-01-16,STARBUCKS #2291,4.85",
     "Date,Description,Amount"}

\* the FileUploadResults: a text the ClipboardParser parsed, or an AI parse
UploadResults ==
    {[type |-> "structured", structured |-> parseText(text), aiParsed |-> <<>>] :
        text \in UploadedTexts}
    \cup
    {[type |-> "unstructured", structured |-> ParseResult(<<>>, <<>>, "unknown"),
      aiParsed |-> [i \in 1..Len(list) |->
                      ParsedTransaction("ai-" \o NatToString(i), list[i].date,
                                        list[i].vendor, list[i].amount, "", list[i].issues,
                                        list[i].category)]] :
        list \in SeqsUpTo(AiTransactions, MaxParsed)}

\* what the user may type or pick in a row
TableEdits ==
    {FieldUpdates("date", "2024-02-01"), FieldUpdates("vendor", "Luna Coffee"),
     FieldUpdates("amount", 0), FieldUpdates("notes", "gift")}

\* bound: the edits, bulk updates and deletes of one review
MaxEdits == 2


\* ImportPage once initializeServices has run without a stored category
\* list: new VendorNormalizer(), new AutoCategorizer(), the default
\* categories; the results in pending are about to be handed over
PageInitWith(pending) ==
    /\ vnHeap = DEFAULT_NORMALIZATION_RULES
    /\ vnRules = [i \in 1..Len(vnHeap) |-> i]
    /\ vnCache = updateUserLearningCache(vnHeap, vnRules)
    /\ vnTrace = <<>>
    /\ acHeap = DEFAULT_RULES
    /\ acRules = [i \in 1..Len(acHeap) |-> i]
    /\ acCategories = {}
    /\ acTrace = <<>>
    /\ ipUpload = pending[1]
    /\ ipPending = pending
    /\ ipUploadResults = <<>>
    /\ ipStep = "upload"
    /\ ipError = ""
    /\ ipReview = <<>>
    /\ ipAssigned = <<>>
    /\ ipEdits = 0
    /\ ipProcessing = FALSE
    /\ ipSaveArg = <<>>
    /\ ipSaveFrom = <<>>
    /\ ipStored = <<>>
    /\ ipSaves = 0

\* one file is uploaded
PageInit == \E result \in UploadResults : PageInitWith(<<result>>)

PageFrame == UNCHANGED <<csvVars, tzEastOfUtc, hashVars, dedupVars, parseVars, mapperVars,
                         twinVars, suggestVars, walkVars>>

EnginesUnchanged == UNCHANGED <<vendorVars, catVars>>

\* handleFileUploaded(result) for the next result of the drop:
\* processUploadedData([result]) and, when it found transactions,
\* normalizeAndCategorize; no result arrives while a save is under way
HandleFileUploaded ==
    /\ ipPending # <<>> /\ ~ipProcessing
    /\ ipUploadResults' = Append(ipUploadResults, Head(ipPending))
    /\ ipPending' = Tail(ipPending)
    /\ \E allTransactions \in {ExtractedTransactions(Head(ipPending))} :
       \E done \in {NormalizeLoop(allTransactions, 1, DefaultUserCategories, vnRules, acRules,
                                   [vendor |-> vnHeap, category |-> acHeap,
                                    reviewable |-> <<>>])} :
           IF Len(allTransactions) > 0
           THEN /\ vnHeap' = done.vendor
                /\ acHeap' = done.category
                /\ ipReview' = done.reviewable
                /\ ipAssigned' = done.reviewable
                /\ ipStep' = "review"
                /\ ipError' = ""
           ELSE /\ ipError' = "No transactions found in the uploaded data."
                /\ ipStep' = "upload"
                /\ UNCHANGED <<vnHeap, acHeap, ipReview, ipAssigned>>
    /\ UNCHANGED <<vnRules, vnCache, vnTrace, acRules, acCategories, acTrace>>
    /\ UNCHANGED <<ipUpload, ipEdits, ipProcessing, ipSaveArg, ipSaveFrom, ipStored, ipSaves>>
    /\ PageFrame

\* the review table is shown
TableShown == ipStep = "review" /\ Len(ipReview) > 0

ReviewIds == {ipReview[i].id : i \in 1..Len(ipReview)}

TableFrame ==
    /\ UNCHANGED <<ipUpload, ipUploadResults, ipStep, ipError, ipAssigned, ipProcessing,
                   ipSaveArg, ipSaveFrom, saveVars>>
    /\ EnginesUnchanged
    /\ PageFrame

\* handleFieldUpdate(field, value) in the row of a transaction, and
\* handleTransactionUpdate
HandleFieldUpdate ==
    /\ TableShown /\ ipEdits < MaxEdits
    /\ \E id \in ReviewIds, updates \in TableEdits :
          ipReview' = ApplyUpdates(ipReview, {id}, updates)
    /\ ipEdits' = ipEdits + 1
    /\ TableFrame

\* handleBulkCategoryUpdate(category) with rows selected, and handleBulkUpdate
HandleBulkCategoryUpdate ==
    /\ TableShown /\ ipEdits < MaxEdits
    /\ \E selectedIds \in SUBSET ReviewIds :
          /\ selectedIds # {}
          /\ ipReview' = ApplyUpdates(ipReview, selectedIds, BulkCategoryUpdates("Shopping"))
    /\ ipEdits' = ipEdits + 1
    /\ TableFrame

\* the delete button of a row, and handleTransactionDelete
HandleTransactionDelete ==
    /\ TableShown /\ ipEdits < MaxEdits
    /\ \E id \in ReviewIds :
          ipReview' = SelectSeq(ipReview, LAMBDA tx : tx.id # id)
    /\ ipEdits' = ipEdits + 1
    /\ TableFrame

\* handleBulkDelete() with rows selected
HandleBulkDelete ==
    /\ TableShown /\ ipEdits < MaxEdits
    /\ \E selectedIds \in SUBSET ReviewIds :
          /\ selectedIds # {}
          /\ ipReview' = SelectSeq(ipReview, LAMBDA tx : tx.id \notin selectedIds)
    /\ ipEdits' = ipEdits + 1
    /\ TableFrame

\* the Save button, enabled, is clicked: handleSaveAll is handed the
\* transactions and runs up to its first await
ClickSaveAll ==
    /\ TableShown /\ ~ipProcessing /\ Stats(ipReview).ready # 0
    /\ ipSaveArg' = Saveable(ipReview)
    /\ ipSaveFrom' = ipReview
    /\ ipProcessing' = TRUE
    /\ UNCHANGED <<ipUpload, ipUploadResults, ipStep, ipError, ipReview, ipAssigned, ipEdits,
                   saveVars>>
    /\ EnginesUnchanged
    /\ PageFrame

\* handleSaveAll finds no user in the session: the error is shown
SaveAllFails ==
    /\ ipProcessing
    /\ ipError' = "Save failed: User not authenticated"
    /\ ipProcessing' = FALSE
    /\ UNCHANGED <<ipUpload, ipUploadResults, ipStep, ipReview, ipAssigned, ipEdits,
                   ipSaveArg, ipSaveFrom, saveVars>>
    /\ EnginesUnchanged
    /\ PageFrame


ValidationErrorNames == {"missing_vendor", "invalid_amount", "invalid_date"}

\* the validation errors of a transaction, as a set
ErrorsOf(tx) == {tx.validationErrors[k] : k \in 1..Len(tx.validationErrors)}

\* C15 as stated: a transaction of the table as the pipeline made it carries
\* missing_vendor exactly when no rule matched its vendor and the
\* normalization fell back to the pre-cleaned text, invalid_amount exactly
\* when its amount is zero or less, invalid_date exactly when its date cannot
\* be parsed, and no other validation error.
C15_MissingVendorOnFallback ==
    ipReview = ipAssigned =>
        \A i \in 1..Len(ipAssigned) :
            LET tx == ipAssigned[i]
            IN  /\ ErrorsOf(tx) \subseteq ValidationErrorNames
                /\ "missing_vendor" \in ErrorsOf(tx) <=> tx.vendorNormalization.rule = 0
                /\ "invalid_amount" \in ErrorsOf(tx) <=> tx.amount <= 0
                /\ "invalid_date" \in ErrorsOf(tx) <=> ~IsValidDate(tx.date)

\* C15 amended: a transaction of the table as the pipeline made it carries
\* missing_vendor exactly when its normalized vendor is empty or "Unknown Vendor",
\* invalid_amount exactly when its amount is zero or less, invalid_date
\* exactly when its date cannot be parsed, and no other validation error; a
\* vendor text no rule matched keeps its pre-cleaned text, is marked
\* needsReview and, unless it is empty or "Unknown Vendor", carries no
\* missing_vendor.
C15_MissingVendorOnPlaceholder ==
    ipReview = ipAssigned =>
        \A i \in 1..Len(ipAssigned) :
            LET tx == ipAssigned[i]
            IN  /\ ErrorsOf(tx) \subseteq ValidationErrorNames
                /\ "missing_vendor" \in ErrorsOf(tx) <=> tx.vendor \in {"", "Unknown Vendor"}
                /\ "invalid_amount" \in ErrorsOf(tx) <=> tx.amount <= 0
                /\ "invalid_date" \in ErrorsOf(tx) <=> ~IsValidDate(tx.date)
                /\ tx.vendorNormalization.rule = 0 =>
                      /\ tx.vendor = Vendor_cleaned(tx.originalVendor)
                      /\ tx.vendorNormalization.needsReview

\* a transaction whose vendor no rule matched, its vendor the pre-cleaned
\* text, without a validation error
C15_Witness ==
    /\ ipStep = "review" /\ ipReview = ipAssigned
    /\ \E i \in 1..Len(ipAssigned) :
          /\ ipAssigned[i].vendorNormalization.rule = 0
          /\ ipAssigned[i].vendor = "LUNA"
          /\ ipAssigned[i].validationErrors = <<>>

\* C16: what the Save button hands to handleSaveAll is, of the transactions
\* the table held when it was clicked, each one without a validation error
\* and no other, whatever edits, bulk updates and deletes came before.
C16_SaveGetsExactlyValid ==
    ipSaveFrom # <<>> =>
        /\ \A k \in 1..Len(ipSaveArg) :
              /\ ipSaveArg[k].validationErrors = <<>>
              /\ \E i \in 1..Len(ipSaveFrom) : ipSaveFrom[i] = ipSaveArg[k]
        /\ \A i \in 1..Len(ipSaveFrom) :
              ipSaveFrom[i].validationErrors = <<>> =>
                  \E k \in 1..Len(ipSaveArg) : ipSaveArg[k] = ipSaveFrom[i]
        /\ Len(ipSaveArg) =
              Cardinality({i \in 1..Len(ipSaveFrom) : ipSaveFrom[i].validationErrors = <<>>})

\* Save was clicked after an edit or delete, on a table holding a
\* transaction with a validation error, one with an issue only and an
\* edited one without either
C16_Witness ==
    /\ ipSaveFrom # <<>>
    /\ ipEdits > 0
    /\ \E i \in 1..Len(ipSaveFrom) : ipSaveFrom[i].validationErrors # <<>>
    /\ \E i \in 1..Len(ipSaveFrom) :
          ipSaveFrom[i].validationErrors = <<>> /\ ipSaveFrom[i].issues # <<>>
    /\ \E k \in 1..Len(ipSaveArg) : ipSaveArg[k].isEdited

\* the transaction of the table as the pipeline made it
AssignedOf(tx) ==
    ipAssigned[CHOOSE i \in 1..Len(ipAssigned) : ipAssigned[i].id = tx.id]

\* a field of the transaction is not as the pipeline made it
IsChanged(tx) == [tx EXCEPT !.isEdited = FALSE] # AssignedOf(tx)

HasIssues(tx) == Len(tx.validationErrors) > 0 \/ Len(tx.issues) > 0

\* C17 as stated: a transaction with a changed field is marked edited, and
\* the ready count counts no edited transaction: it is at most the number
\* of transactions that have no issue and are not edited.
C17_ReadyExcludesEdited ==
    /\ \A i \in 1..Len(ipReview) : IsChanged(ipReview[i]) => ipReview[i].isEdited
    /\ Stats(ipReview).ready
          <= Cardinality({i \in 1..Len(ipReview) :
                             ~HasIssues(ipReview[i]) /\ ~ipReview[i].isEdited})

\* C17 amended: a transaction with a field changed in the review table is
\* marked edited and counted in the edited count; the ready count is the
\* number of transactions without validation errors and issues, the edited
\* ones among them included.
C17_EditedMarkedAndCounted ==
    /\ \A i \in 1..Len(ipReview) : IsChanged(ipReview[i]) => ipReview[i].isEdited
    /\ Stats(ipReview).edited
          >= Cardinality({i \in 1..Len(ipReview) : IsChanged(ipReview[i])})
    /\ Stats(ipReview).ready
          = Cardinality({i \in 1..Len(ipReview) : ~HasIssues(ipReview[i])})

\* a transaction changed by a bulk update, marked edited, without issues and
\* counted as ready
C17_Witness ==
    /\ ipStep = "review"
    /\ \E i \in 1..Len(ipReview) :
          /\ IsChanged(ipReview[i])
          /\ ipReview[i].suggestedCategory = "Shopping"
          /\ ipReview[i].isEdited
          /\ ~HasIssues(ipReview[i])
    /\ Stats(ipReview).ready > 0

\* what ClipboardParser.parseText makes of the CSV of the scenario
ScenarioParsed == parseText(ScenarioCsv)

\* the upload is the CSV of the end-to-end scenario and the pipeline has run
ScenarioProcessed ==
    /\ ipStep = "review"
    /\ ipUpload.type = "structured"
    /\ ipUpload.structured = ScenarioParsed

\* C19: on the CSV of the scenario, with the seed rules only, the pipeline
\* makes three transactions, flags the second as a duplicate and not the
\* first and third, and gives the third the vendor "Starbucks" and the
\* category "Dining Out" with a confidence of 0.85 or more.
C19_EndToEndScenario ==
    ScenarioProcessed =>
        /\ Len(ipAssigned) = 3
        /\ ~ipAssigned[1].isDuplicate
        /\ ipAssigned[2].isDuplicate
        /\ ~ipAssigned[3].isDuplicate
        /\ ipAssigned[3].vendor = "Starbucks"
        /\ ipAssigned[3].suggestedCategory = "Dining Out"
        /\ ~RatioLess(ipAssigned[3].categoryConfidence, Ratio(85, 100))

\* the scenario has run through the pipeline: the third transaction came from
\* the STARBUCKS #2291 row
C19_Witness ==
    /\ ScenarioProcessed
    /\ Len(ipAssigned) = 3
    /\ ipAssigned[3].originalVendor = "STARBUCKS #2291"
    /\ ipAssigned[3].amount = 4850

-----------------------------------------------------------------------------
(* AutoCategorizer: rejected suggestions                                   *)

\* the call the step makes on the categorizer, when it makes one
Categorizer_lastCall == acTrace'[Len(acTrace')]

\* the step is a learnFromCorrection call that names a rejected suggestion
\* other than the correct category and gets past the user-categories test
RejectionStep ==
    /\ Len(acTrace') = Len(acTrace) + 1
    /\ Categorizer_lastCall.op = "learnFromCorrection"
    /\ Categorizer_lastCall.rejected # ""
    /\ Categorizer_lastCall.rejected # Categorizer_lastCall.category
    /\ (acCategories = {} \/ Categorizer_lastCall.category \in acCategories)

\* the rule objects whose confidence the step lowers
LoweredRules == {r \in 1..Len(acHeap) : acHeap'[r].confidence < acHeap[r].confidence}

\* the confidence the rejection branch leaves a rule of confidence old with
PenalizedConfidence(rule) ==
    IF rule.isUserDefined THEN Max(10, rule.confidence - 30)
    ELSE Max(30, rule.confidence - 10)

(* C21: when learnFromCorrection is called with the suggestion that        *)
(* categorizeTransaction makes for the description as the rejected one,    *)
(* the only rule whose confidence is lowered is the rule that produced the *)
(* suggestion, and its new confidence is max(0.1, old - 0.3) if it is      *)
(* user-defined and max(0.3, old - 0.1) if it is a seed rule.              *)
C21_RejectionLowersProducingRule ==
    [][RejectionStep =>
          LET produced == categorizeTransaction(acHeap, acRules, acCategories,
                              Categorizer_lastCall.description)
          IN  (produced.matchedRule # 0
                 /\ produced.suggestedCategory = Categorizer_lastCall.rejected) =>
                  \A r \in LoweredRules :
                      /\ r = produced.matchedRule
                      /\ acHeap'[r].confidence = PenalizedConfidence(acHeap[r])]_vars

(* C30: a rejection never raises a rule's confidence: after every          *)
(* learnFromCorrection call whose rejected suggestion differs from the     *)
(* correct category, every rule of the rejected category has a confidence  *)
(* less than or equal to the one it had before the call.                   *)
C30_RejectionNeverRaises ==
    [][RejectionStep =>
          \A r \in 1..Len(acHeap) :
              acHeap[r].category = Categorizer_lastCall.rejected =>
                  acHeap'[r].confidence <= acHeap[r].confidence]_vars

\* a rejection of 'Dining Out' has just been learned for a description that
\* a rule of that category matches, and the confidence of that rule is below
\* the floor the rejection branch would put it on
C30_Witness ==
    /\ Len(acTrace) > 1
    /\ acTrace[Len(acTrace)].op = "learnFromCorrection"
    /\ acTrace[Len(acTrace)].rejected = "Dining Out"
    /\ acTrace[Len(acTrace)].category = "Coffee"
    /\ acCategories = {}
    /\ \E r \in 1..Len(acRules) :
          /\ acHeap[acRules[r]].category = "Dining Out"
          /\ acHeap[acRules[r]].confidence < PenalizedConfidence(acHeap[acRules[r]])
          /\ RatioLess(Ratio(0, 1),
                       calculateMatchConfidence(
                           Categorizer_normalizeDescription(
                               acTrace[Len(acTrace)].description),
                           acHeap[acRules[r]]))

-----------------------------------------------------------------------------
(* Both engines: the range of confidences                                  *)

\* a score between 0 and 1
InUnitInterval(ratio) ==
    /\ ~RatioLess(ratio, Ratio(0, 1))
    /\ ~RatioLess(Ratio(1, 1), ratio)

(* C22: starting from the seed rules and rules of a confidence in [0,1],   *)
(* after any sequence of normalizeVendor, categorizeTransaction and        *)
(* learnFromCorrection calls every rule of either engine has a confidence  *)
(* in [0,1], and so has every confidence returned in a result, a           *)
(* suggestion or an alternative.                                           *)
C22_ConfidencesStayInUnitInterval ==
    /\ \A r \in 1..Len(vnHeap) : vnHeap[r].confidence \in 0..100
    /\ \A r \in 1..Len(acHeap) : acHeap[r].confidence \in 0..100
    /\ \A i \in 1..Len(vnTrace) :
          /\ InUnitInterval(vnTrace[i].result.confidence)
          /\ \A k \in 1..Len(vnTrace[i].result.suggestions) :
                InUnitInterval(vnTrace[i].result.suggestions[k].confidence)
    /\ \A i \in 1..Len(acTrace) :
          /\ InUnitInterval(acTrace[i].result.confidence)
          /\ \A k \in 1..Len(acTrace[i].result.alternatives) :
                InUnitInterval(acTrace[i].result.alternatives[k].confidence)

\* normalizeVendor has answered with the confidence 1 of an exact match on a
\* rule of confidence 0.95, and a correction has been learned after it
C22_Witness ==
    /\ Len(vnTrace) > 1
    /\ vnTrace[1].op = "normalizeVendor"
    /\ vnTrace[1].result.confidence = Ratio(1, 1)
    /\ vnHeap[vnTrace[1].result.rule].confidence = 95
    /\ vnTrace[Len(vnTrace)].op = "learnFromCorrection"

-----------------------------------------------------------------------------
(* VendorNormalizer: the rule a correction returns                         *)

(* C24: the rule learnFromCorrection(original, corrected) returns maps to  *)
(* the corrected name (its normalizedName equals corrected, letter case    *)
(* aside), also when an earlier correction of the same original text to    *)
(* another name exists.                                                    *)
C24_ReturnedRuleMapsToCorrected ==
    \A i \in 1..Len(vnTrace) :
        vnTrace[i].op = "learnFromCorrection" =>
            ToLowerCase(vnHeap[vnTrace[i].returned].normalizedName)
                = ToLowerCase(vnTrace[i].correctedName)

-----------------------------------------------------------------------------
(* ImportPage: handleSaveAll with a signed-in session, and several files   *)

\* the row handleSaveAll inserts for tx; source names the transaction the
\* row was made from; user_id, category_id and account_id, looked up in the
\* store, are left out
StoredRow(tx) ==
    [source           |-> tx.id,
     description      |-> tx.vendor,
     amount           |-> -Abs(tx.amount),
     transaction_date |-> IF IsValidDate(tx.date) THEN tx.date ELSE Today,
     vendor           |-> tx.notes]

\* the rejectedSuggestion the learning loop hands to the categorizer
LowConfidenceMark(tx) ==
    IF tx.categoryConfidence # Ratio(0, 1) /\ RatioLess(tx.categoryConfidence, Ratio(8, 10))
    THEN "low_confidence" ELSE ""

\* the test of the learning loop before vendorNormalizer.learnFromCorrection
LearnsVendor(tx) == tx.isEdited /\ tx.vendor # tx.originalVendor

\* one pass of the learning loop of handleSaveAll: both engines and their
\* call traces after tx is handled
LearnStep(tx, state) ==
    Only({Only({
        [vHeap  |-> afterVendor.heap,
         vRules |-> afterVendor.rules,
         vCache |-> afterVendor.cache,
         vTrace |-> afterVendor.trace,
         cHeap  |-> afterCategory.heap,
         cRules |-> afterCategory.rules,
         cTrace |-> IF tx.isEdited /\ tx.suggestedCategory # ""
                    THEN Append(state.cTrace,
                             CatCall("learnFromCorrection", tx.vendor, tx.suggestedCategory,
                                     LowConfidenceMark(tx), NoCatResult))
                    ELSE state.cTrace] :
          afterCategory \in
            {IF tx.isEdited /\ tx.suggestedCategory # ""
             THEN Categorizer_learnFromCorrection(state.cHeap, state.cRules, {}, tx.vendor,
                      tx.suggestedCategory, LowConfidenceMark(tx))
             ELSE [heap |-> state.cHeap, rules |-> state.cRules]}}) :
      afterVendor \in
        {IF LearnsVendor(tx)
         THEN Only({[heap  |-> learned.heap, rules |-> learned.rules,
                     cache |-> learned.cache,
                     trace |-> Append(state.vTrace,
                                   VendorCall("learnFromCorrection", tx.originalVendor,
                                              tx.vendor, NoVendorResult, learned.returned))] :
                      learned \in {Vendor_learnFromCorrection(state.vHeap, state.vRules,
                                       state.vCache, tx.originalVendor, tx.vendor)}})
         ELSE [heap |-> state.vHeap, rules |-> state.vRules, cache |-> state.vCache,
               trace |-> state.vTrace]}})

\* the learning loop from transaction k on
RECURSIVE LearnLoop(_, _, _)
LearnLoop(transactions, k, state) ==
    IF k > Len(transactions) THEN state
    ELSE Only({LearnLoop(transactions, k + 1, next) :
                 next \in {LearnStep(transactions[k], state)}})

\* bound: the saves that get as far as the insert loop
MaxSaves == 2

\* handleSaveAll, signed in, fails on the insert of transaction k + 1: the
\* rows of the first k stay in the table, the error is shown
SaveAllInsertFails ==
    /\ ipProcessing /\ ipSaves < MaxSaves
    /\ \E k \in 0..(Len(ipSaveArg) - 1) :
          /\ ipStored' = ipStored \o [i \in 1..k |-> StoredRow(ipSaveArg[i])]
          /\ ipError' = "Save failed: Failed to save transaction \""
                            \o ipSaveArg[k + 1].vendor \o "\""
    /\ ipSaves' = ipSaves + 1
    /\ ipProcessing' = FALSE
    /\ UNCHANGED <<ipUpload, ipUploadResults, ipStep, ipReview, ipAssigned, ipEdits,
                   ipSaveArg, ipSaveFrom, ipPending>>
    /\ EnginesUnchanged
    /\ PageFrame

\* handleSaveAll, signed in, inserts every transaction, runs the learning
\* loop and resets the import
SaveAllSucceeds ==
    /\ ipProcessing /\ ipSaves < MaxSaves
    /\ ipStored' = ipStored \o [i \in 1..Len(ipSaveArg) |-> StoredRow(ipSaveArg[i])]
    /\ \E learned \in {LearnLoop(ipSaveArg, 1,
                           [vHeap |-> vnHeap, vRules |-> vnRules, vCache |-> vnCache,
                            vTrace |-> vnTrace, cHeap |-> acHeap, cRules |-> acRules,
                            cTrace |-> acTrace])} :
          /\ vnHeap' = learned.vHeap /\ vnRules' = learned.vRules
          /\ vnCache' = learned.vCache /\ vnTrace' = learned.vTrace
          /\ acHeap' = learned.cHeap /\ acRules' = learned.cRules
          /\ acTrace' = learned.cTrace
    /\ ipStep' = "upload"
    /\ ipUploadResults' = <<>>
    /\ ipReview' = <<>>
    /\ ipAssigned' = <<>>
    /\ ipError' = ""
    /\ ipSaves' = ipSaves + 1
    /\ ipProcessing' = FALSE
    /\ UNCHANGED <<ipUpload, ipEdits, ipSaveArg, ipSaveFrom, ipPending, acCategories>>
    /\ PageFrame

\* the CSV texts of the saves
SavedTexts ==
    {"Date,Description,Amount\n2024-01-15,LUNA,5\n2024-01-16,STARBUCKS #2291,4.85"}

SaveInit ==
    \E text \in SavedTexts :
        PageInitWith(<<[type |-> "structured", structured |-> parseText(text),
                        aiParsed |-> <<>>]>>)

\* a drop of two files: a CSV file and a text file the AI parser read, in
\* either order
DroppedCsv ==
    {[type |-> "structured", structured |-> parseText(text), aiParsed |-> <<>>] :
        text \in SavedTexts \cup {"Date,Description,Amount"}}

DroppedText ==
    {[type |-> "unstructured", structured |-> ParseResult(<<>>, <<>>, "unknown"),
      aiParsed |-> <<ParsedTransaction("ai-1", tx.date, tx.vendor, tx.amount, "", tx.issues,
                                       tx.category)>>] :
        tx \in {ai \in AiTransactions : ai.vendor = "LUNA"}}

DropInit ==
    \E csv \in DroppedCsv, text \in DroppedText :
        PageInitWith(<<csv, text>>) \/ PageInitWith(<<text, csv>>)

\* the ids of a list of transactions
IdsOf(transactions) == {transactions[i].id : i \in 1..Len(transactions)}

(* C23: vendorNormalizer.learnFromCorrection is called for a saved         *)
(* transaction only if the user changed its vendor away from the           *)
(* normalized name the pipeline assigned; a transaction whose vendor was   *)
(* left as the pipeline suggested produces no vendor rule, whatever other  *)
(* field was edited.                                                       *)
C23_VendorLearningOnlyFromVendorEdits ==
    \A k \in 1..Len(ipSaveArg) :
        (\E i \in 1..Len(vnTrace) :
            /\ vnTrace[i].op = "learnFromCorrection"
            /\ vnTrace[i].originalName = ipSaveArg[k].originalVendor
            /\ vnTrace[i].correctedName = ipSaveArg[k].vendor)
        => ipSaveArg[k].vendor # ipSaveArg[k].vendorNormalization.normalizedName

(* C25: no transaction is inserted into storage more than once, also when  *)
(* a save fails on some transaction and the user saves again.              *)
C25_NoTransactionInsertedTwice ==
    \A i, j \in 1..Len(ipStored) : ipStored[i].source = ipStored[j].source => i = j

(* C26: when several files are uploaded in one drop, after all of them     *)
(* have been processed the review list holds the transactions of every     *)
(* uploaded file, whatever order the per-file callbacks complete in.       *)
C26_ReviewHoldsEveryFile ==
    (ipPending = <<>> /\ ipEdits = 0 /\ ipSaves = 0) =>
        \A f \in 1..Len(ipUploadResults) :
            IdsOf(ExtractedTransactions(ipUploadResults[f])) \subseteq IdsOf(ipReview)

(* C27: every transaction handed to the commit operation has, at the       *)
(* moment of the commit, an amount above 0, a parseable date and a         *)
(* non-empty vendor, also after the user edited its fields in the review   *)
(* table.                                                                  *)
C27_CommittedTransactionsAreValid ==
    \A k \in 1..Len(ipSaveArg) :
        /\ ipSaveArg[k].amount > 0
        /\ IsValidDate(ipSaveArg[k].date)
        /\ ipSaveArg[k].vendor # ""

-----------------------------------------------------------------------------
(* RememberCategorization: the walk over the transactions prop             *)

\* the longest transactions prop
MaxWalk == 3

\* the descriptions of the transactions handed to the walk; "" is a
\* transaction without description
WalkDescriptions == CatDescriptions \cup {""}

\* the categories prop
WalkCategories == {"Coffee", "Dining Out"}

\* the transactions props: every list of one to MaxWalk transactions
WalkLists ==
    UNION {[1..n -> WalkDescriptions] : n \in 1..MaxWalk}

\* the component as mounted: its own new AutoCategorizer(), the first
\* transaction current, nothing categorized, no suggestion
WalkInit ==
    /\ \E descriptions \in WalkLists :
          rcTransactions = [i \in 1..Len(descriptions) |->
                               [id          |-> "tx-" \o NatToString(i),
                                description |-> descriptions[i]]]
    /\ rcIndex = 0
    /\ rcCategorized = <<>>
    /\ rcSuggestion = <<>>
    /\ rcCompleted = <<>>
    /\ acHeap = DEFAULT_RULES
    /\ acRules = [i \in 1..Len(DEFAULT_RULES) |-> i]
    /\ acCategories = {}
    /\ acTrace = <<>>

WalkFrame == UNCHANGED <<csvVars, tzEastOfUtc, hashVars, dedupVars, vendorVars, parseVars,
                         mapperVars, twinVars, pageVars, saveVars, suggestVars>>

\* the effect on [transactions, currentTransactionIndex]: it runs
\* processCurrentTransaction after the mount and after every change of the
\* index; currentSuggestion is null from handleNextTransaction until it ran
ProcessCurrentTransaction ==
    /\ Len(rcTransactions) > 0
    /\ rcSuggestion = <<>>
    /\ IF rcIndex >= Len(rcTransactions)
       THEN /\ rcCompleted = <<>>
            /\ rcCompleted' = <<rcCategorized>>
            /\ UNCHANGED <<rcIndex, rcSuggestion, catVars>>
       ELSE IF rcTransactions[rcIndex + 1].description = ""
       THEN /\ rcIndex' = rcIndex + 1
            /\ UNCHANGED <<rcSuggestion, rcCompleted, catVars>>
       ELSE \E suggestion \in {categorizeTransaction(acHeap, acRules, acCategories,
                                   rcTransactions[rcIndex + 1].description)} :
                /\ rcSuggestion' = <<suggestion>>
                /\ acHeap' = IF suggestion.matchedRule = 0 THEN acHeap
                             ELSE Categorizer_updateRuleUsage(acHeap, acRules,
                                      acHeap[suggestion.matchedRule].id)
                /\ acTrace' = Append(acTrace,
                       CatCall("categorizeTransaction",
                               rcTransactions[rcIndex + 1].description, "", "", suggestion))
                /\ UNCHANGED <<rcIndex, rcCompleted, acRules, acCategories>>
    /\ UNCHANGED <<rcTransactions, rcCategorized>>
    /\ WalkFrame

\* handleCategorySelection(category), from a category button, from Accept
\* or from the new-category input, followed by handleNextTransaction
HandleCategorySelection ==
    /\ rcSuggestion # <<>>
    /\ \E category \in WalkCategories :
        \E transaction \in {rcTransactions[rcIndex + 1]} :
        \E rejectedSuggestion \in {IF rcSuggestion[1].suggestedCategory # category
                                   THEN rcSuggestion[1].suggestedCategory ELSE ""} :
        \E learned \in {Categorizer_learnFromCorrection(acHeap, acRules, acCategories,
                            transaction.description, category, rejectedSuggestion)} :
            /\ rcCategorized' = Append(rcCategorized,
                                       Spread(transaction, [category |-> category]))
            /\ acHeap' = learned.heap
            /\ acRules' = learned.rules
            /\ acTrace' = Append(acTrace,
                   CatCall("learnFromCorrection", transaction.description, category,
                           rejectedSuggestion, NoCatResult))
    /\ rcIndex' = rcIndex + 1
    /\ rcSuggestion' = <<>>
    /\ UNCHANGED <<rcTransactions, rcCompleted, acCategories>>
    /\ WalkFrame

\* handleSkipTransaction, followed by handleNextTransaction
HandleSkipTransaction ==
    /\ rcSuggestion # <<>>
    /\ rcCategorized' = Append(rcCategorized, rcTransactions[rcIndex + 1])
    /\ rcIndex' = rcIndex + 1
    /\ rcSuggestion' = <<>>
    /\ UNCHANGED <<rcTransactions, rcCompleted, catVars>>
    /\ WalkFrame

(* C28: when the walk of RememberCategorization over its transactions      *)
(* completes, the list handed to onCategorizationComplete holds exactly    *)
(* one entry per input transaction, in input order, whether a transaction  *)
(* was given a category, skipped by the user, or has no description.       *)
C28_WalkHandsOneEntryPerTransaction ==
    \A c \in 1..Len(rcCompleted) :
        /\ Len(rcCompleted[c]) = Len(rcTransactions)
        /\ \A i \in 1..Len(rcTransactions) : rcCompleted[c][i].id = rcTransactions[i].id

-----------------------------------------------------------------------------
(* ColumnMapper: the suggested mapping                                     *)

\* the ids of TRANSACTION_FIELDS, in their order
TRANSACTION_FIELDS == <<"date", "description", "amount", "account", "category", "reference">>

\* suggestions: the common column names of each field
suggestions ==
    [date        |-> <<"date", "transaction date", "posted date", "value date", "trans date">>,
     description |-> <<"description", "memo", "payee", "merchant", "details", "transaction">>,
     amount      |-> <<"amount", "debit", "credit", "value", "transaction amount", "sum">>,
     account     |-> <<"account", "account name", "account number", "from account">>,
     category    |-> <<"category", "type", "transaction type", "class">>,
     reference   |-> <<"reference", "ref", "transaction id", "check number", "id">>]

\* getAutoSuggestedMapping(fieldId): the first header that holds one of the
\* field's suggestions, "" when there is none (undefined)
getAutoSuggestedMapping(headers, fieldId) ==
    LET possibleHeaders == suggestions[fieldId]
        Suggested(header) ==
            \E s \in 1..Len(possibleHeaders) :
                Includes(ToLowerCase(header), ToLowerCase(possibleHeaders[s]))
        found == {h \in 1..Len(headers) : Suggested(headers[h])}
    IN  IF found = {} THEN ""
        ELSE headers[CHOOSE h \in found : \A other \in found : h <= other]

\* autoMapping as the Auto-Suggest button builds it
AutoMapping(headers) ==
    LET suggested == [f \in 1..Len(TRANSACTION_FIELDS) |->
                         getAutoSuggestedMapping(headers, TRANSACTION_FIELDS[f])]
        mappedFields == {TRANSACTION_FIELDS[f] : f \in {g \in 1..Len(TRANSACTION_FIELDS) :
                                                          suggested[g] # ""}}
    IN  [fieldId \in mappedFields |->
            suggested[CHOOSE f \in 1..Len(TRANSACTION_FIELDS) :
                          TRANSACTION_FIELDS[f] = fieldId]]

\* bound: the columns of the parsed data
MaxHeaders == 2

\* the column headers files come with
HeaderNames == {"Transaction Date", "Date", "Description", "Amount", "Memo", "Transaction ID"}

\* the header rows: the columns of a file have distinct names
HeaderLists ==
    {headers \in UNION {[1..n -> HeaderNames] : n \in 1..MaxHeaders} :
        \A i, j \in 1..Len(headers) : headers[i] = headers[j] => i = j}

\* the fields whose select the user changes by hand
HandMappedFields == {"date", "description", "amount"}

\* ColumnMapper({headers, ...}) as mounted: nothing mapped
SuggestInit ==
    /\ cmHeaders \in HeaderLists
    /\ cmMapping = <<>>
    /\ cmRows = <<>>
    /\ cmMapped = <<>>
    /\ cmPhase = "mapping"

SuggestFrame == UNCHANGED <<csvVars, tzEastOfUtc, hashVars, dedupVars, vendorVars, catVars,
                            parseVars, twinVars, pageVars, saveVars, walkVars,
                            cmHeaders, cmRows, cmMapped, cmPhase>>

\* the Auto-Suggest Mappings button
AutoSuggestMappings ==
    /\ cmPhase = "mapping"
    /\ cmHeaders # <<>>
    /\ cmMapping' = AutoMapping(cmHeaders)
    /\ SuggestFrame

\* handleFieldMapping(fieldId, columnHeader), from the select of a field
HandleFieldMapping ==
    /\ cmPhase = "mapping"
    /\ cmHeaders # <<>>
    /\ \E fieldId \in HandMappedFields,
          columnHeader \in {cmHeaders[h] : h \in 1..Len(cmHeaders)} \cup {"__none__"} :
          cmMapping' =
              IF columnHeader = "__none__"
              THEN [f \in DOMAIN cmMapping \ {fieldId} |-> cmMapping[f]]
              ELSE [f \in DOMAIN cmMapping \cup {fieldId} |->
                       IF f = fieldId THEN columnHeader ELSE cmMapping[f]]
    /\ SuggestFrame

(* C29: the mapping the Auto-Suggest button proposes never gives the same  *)
(* column header to two different fields: the headers proposed for date,   *)
(* description, amount, account, category and reference are pairwise       *)
(* distinct, whatever the header row is.                                   *)
C29_SuggestedHeadersAreDistinct ==
    [][AutoSuggestMappings =>
          \A f1, f2 \in DOMAIN cmMapping' : cmMapping'[f1] = cmMapping'[f2] => f1 = f2]_vars

-----------------------------------------------------------------------------
(* Specifications                                                          *)

CsvIdle ==
    /\ csvLine = "" /\ csvDelimiter = "," /\ csvValues = <<>>
    /\ csvFields = <<>> /\ csvPhase = "idle"

HashIdle ==
    /\ hashOrig = MappedTransaction("", NaN, "") /\ hashVariant = hashOrig
    /\ hashEditKind = "none" /\ hashOfOrig = "" /\ hashOfVariant = ""

DedupIdle ==
    /\ dedupBatch = <<>> /\ existingHashes = {} /\ opInput = <<>>
    /\ opOutput = <<>> /\ lastOp = "idle"

VendorIdle ==
    /\ vnHeap = <<>> /\ vnRules = <<>> /\ vnCache = <<>> /\ vnTrace = <<>>

CatIdle ==
    /\ acHeap = <<>> /\ acRules = <<>> /\ acCategories = {} /\ acTrace = <<>>

ParseIdle == ptText = "" /\ ptPhase = "idle" /\ ptResult = <<>>

MapperIdle ==
    cmRows = <<>> /\ cmMapping = <<>> /\ cmMapped = <<>> /\ cmPhase = "idle"

\* the components modelled after the categorizer, at rest
TwinIdle == vnOtherRules = <<>> /\ vnOtherSeen = <<>>

PageIdle ==
    /\ ipUpload = <<>> /\ ipUploadResults = <<>> /\ ipStep = "idle" /\ ipError = ""
    /\ ipReview = <<>> /\ ipAssigned = <<>> /\ ipEdits = 0 /\ ipProcessing = FALSE
    /\ ipSaveArg = <<>> /\ ipSaveFrom = <<>>

SaveIdle == ipPending = <<>> /\ ipStored = <<>> /\ ipSaves = 0

SuggestIdle == cmHeaders = <<>>

WalkIdle ==
    /\ rcTransactions = <<>> /\ rcIndex = 0 /\ rcCategorized = <<>>
    /\ rcSuggestion = <<>> /\ rcCompleted = <<>>

RestIdle == SaveIdle /\ SuggestIdle /\ WalkIdle

LaterIdle == ParseIdle /\ MapperIdle /\ TwinIdle /\ PageIdle /\ RestIdle

CsvNext == ParseCSVLine \/ Requote

InitCsv ==
    CsvInit /\ tzEastOfUtc = FALSE /\ HashIdle /\ DedupIdle /\ VendorIdle /\ CatIdle /\ LaterIdle

SpecCsv == InitCsv /\ [][CsvNext]_vars

HashNext ==
    \/ ChangeCase \/ InsertWhitespace \/ RemoveWhitespace
    \/ InsertPunctuation \/ RemovePunctuation
    \/ GenerateHashOfOrig \/ GenerateHashOfVariant

InitHash ==
    HashInit /\ tzEastOfUtc \in BOOLEAN /\ CsvIdle /\ DedupIdle /\ VendorIdle /\ CatIdle /\ LaterIdle

SpecHash == InitHash /\ [][HashNext]_vars

DedupNext == AddHashesToTransactions \/ CheckForDuplicates \/ GetUniqueTransactions

InitDedup ==
    tzEastOfUtc \in BOOLEAN /\ DedupInit /\ CsvIdle /\ HashIdle /\ VendorIdle /\ CatIdle /\ LaterIdle

SpecDedup == InitDedup /\ [][DedupNext]_vars

VendorNext == NormalizeVendor \/ Vendor_LearnFromCorrection \/ ImportExportedRules

InitVendor ==
    VendorInit /\ tzEastOfUtc = FALSE /\ CsvIdle /\ HashIdle /\ DedupIdle /\ CatIdle /\ LaterIdle

SpecVendor == InitVendor /\ [][VendorNext]_vars

CatNext ==
    \/ CategorizeTransaction \/ Categorizer_LearnFromCorrection \/ AddRule
    \/ UpdateRule \/ UpdateUserData \/ LoadUserRules

InitCat ==
    CatInit /\ tzEastOfUtc = FALSE /\ CsvIdle /\ HashIdle /\ DedupIdle /\ VendorIdle /\ LaterIdle

SpecCat == InitCat /\ [][CatNext]_vars

\* either engine, constructed on its own; the calls go to the one that is
EnginesNext ==
    \/ (vnHeap # <<>> /\ NormalizeVendor)
    \/ (vnHeap # <<>> /\ Vendor_LearnFromCorrection)
    \/ (vnHeap # <<>> /\ ImportExportedRules)
    \/ (acHeap # <<>> /\ CategorizeTransaction)
    \/ (acHeap # <<>> /\ Categorizer_LearnFromCorrection)
    \/ (acHeap # <<>> /\ AddRule)
    \/ (acHeap # <<>> /\ UpdateRule)
    \/ (acHeap # <<>> /\ UpdateUserData)
    \/ (acHeap # <<>> /\ LoadUserRules)

InitEngines == InitVendor \/ InitCat

SpecEngines == InitEngines /\ [][EnginesNext]_vars

ParseNext == ParseText

InitParse ==
    /\ ParseInit /\ tzEastOfUtc = FALSE
    /\ CsvIdle /\ HashIdle /\ DedupIdle /\ VendorIdle /\ CatIdle /\ MapperIdle /\ TwinIdle /\ PageIdle
    /\ RestIdle

SpecParse == InitParse /\ [][ParseNext]_vars

MapperNext == HandleProcessMapping

InitMapper ==
    /\ MapperInit /\ tzEastOfUtc \in BOOLEAN
    /\ CsvIdle /\ HashIdle /\ DedupIdle /\ VendorIdle /\ CatIdle /\ ParseIdle /\ TwinIdle /\ PageIdle
    /\ RestIdle

SpecMapper == InitMapper /\ [][MapperNext]_vars

\* two normalizers; the calls are made on the first
TwinNext == NormalizeVendor \/ Vendor_LearnFromCorrection

InitTwin ==
    /\ VendorInit /\ TwinInit /\ tzEastOfUtc = FALSE
    /\ CsvIdle /\ HashIdle /\ DedupIdle /\ CatIdle /\ ParseIdle /\ MapperIdle /\ PageIdle
    /\ RestIdle

SpecTwin == InitTwin /\ [][TwinNext]_vars

PageNext ==
    \/ HandleFileUploaded
    \/ HandleFieldUpdate
    \/ HandleBulkCategoryUpdate
    \/ HandleTransactionDelete
    \/ HandleBulkDelete
    \/ ClickSaveAll
    \/ SaveAllFails

InitPage ==
    /\ PageInit /\ tzEastOfUtc = FALSE
    /\ CsvIdle /\ HashIdle /\ DedupIdle /\ ParseIdle /\ MapperIdle /\ TwinIdle
    /\ SuggestIdle /\ WalkIdle

SpecPage == InitPage /\ [][PageNext]_vars

\* the page with a signed-in session: a save gets to the insert loop
SaveNext ==
    \/ HandleFileUploaded
    \/ HandleFieldUpdate
    \/ HandleBulkCategoryUpdate
    \/ HandleTransactionDelete
    \/ HandleBulkDelete
    \/ ClickSaveAll
    \/ SaveAllInsertFails
    \/ SaveAllSucceeds

InitSave ==
    /\ SaveInit /\ tzEastOfUtc = FALSE
    /\ CsvIdle /\ HashIdle /\ DedupIdle /\ ParseIdle /\ MapperIdle /\ TwinIdle
    /\ SuggestIdle /\ WalkIdle

SpecSave == InitSave /\ [][SaveNext]_vars

InitDrop ==
    /\ DropInit /\ tzEastOfUtc = FALSE
    /\ CsvIdle /\ HashIdle /\ DedupIdle /\ ParseIdle /\ MapperIdle /\ TwinIdle
    /\ SuggestIdle /\ WalkIdle

SpecDrop == InitDrop /\ [][PageNext]_vars

WalkNext == ProcessCurrentTransaction \/ HandleCategorySelection \/ HandleSkipTransaction

InitWalk ==
    /\ WalkInit /\ tzEastOfUtc = FALSE /\ CsvIdle /\ HashIdle /\ DedupIdle /\ VendorIdle
    /\ ParseIdle /\ MapperIdle /\ TwinIdle /\ PageIdle /\ SaveIdle /\ SuggestIdle

SpecWalk == InitWalk /\ [][WalkNext]_vars

SuggestNext == AutoSuggestMappings \/ HandleFieldMapping

InitSuggest ==
    /\ SuggestInit /\ tzEastOfUtc = FALSE /\ CsvIdle /\ HashIdle /\ DedupIdle /\ VendorIdle
    /\ CatIdle /\ ParseIdle /\ TwinIdle /\ PageIdle /\ SaveIdle /\ WalkIdle

SpecSuggest == InitSuggest /\ [][SuggestNext]_vars

=============================================================================
